---- MODULE Spec2Model ----
(***************************************************************************)
(* Model of the OSNDXFIO indexed record store (osndxfio.cpp) on top of the *)
(* OSFIO byte-addressed file (osfio.cpp).  The database file is modelled   *)
(* as its sequence of bytes; every structure the code reads or writes is   *)
(* encoded and decoded at the offsets the code uses.  32-bit words are     *)
(* kept as their two's complement value in -2^31 .. 2^31-1 (U32 0xFFFFFFFF *)
(* is -1), unsigned comparisons are made explicit.                         *)
(***************************************************************************)
EXTENDS Integers, Sequences, FiniteSets, TLC

VARIABLES
    disk,       \* the database file: [exists, bytes, indeterminate]
    rebuilt,    \* the file rebuild() creates: [exists, bytes, indeterminate]
    m_handle,   \* OSNDXFIO::m_handle: << >> is NULL, << h >> an open store
    m_error,    \* OSNDXFIO::m_error
    key,        \* the caller's sKEY object
    ret,        \* what the last call returned to the caller
    hist,       \* history of the calls that returned (ghost)
    pc          \* "ready", or "hung" when a call never returns

vars == << disk, rebuilt, m_handle, m_error, key, ret, hist, pc >>

-----------------------------------------------------------------------------
(* Bounds of the model. *)

MaxCreates == 3       \* records created per behaviour of Spec
MaxOpens == 1         \* open calls per behaviour of Spec
MaxDeletes == 1       \* records deleted per behaviour of Spec
MaxSearchCreates == 3 \* records created per behaviour of SpecSearch
MaxChainCreates == 11 \* records created per behaviour of SpecChain
MaxChainOpens == 2    \* open calls per behaviour of SpecChain
MaxSortCreates == 15  \* records created per behaviour of SpecSort
MaxSortOpens == 1     \* open calls per behaviour of SpecSort
MaxSetupOpens == 3    \* open calls per behaviour of SpecSetup
MaxValidOpens == 1    \* open calls per behaviour of SpecValid
MaxRebuildCreates == 10 \* records created per behaviour of SpecRebuild
MaxRebuildOpens == 1  \* open calls per behaviour of SpecRebuild
MaxRebuildDeletes == 1 \* records deleted per behaviour of SpecRebuild
MaxReuseCreates == 4  \* records created per behaviour of SpecReuse
MaxReuseOpens == 1    \* open calls per behaviour of SpecReuse
MaxFaultCreates == 11 \* records created per behaviour of SpecFault
MaxFaultOpens == 1    \* open calls per behaviour of SpecFault
MaxFaults == 1        \* createRecord calls with a failing ::write per behaviour
MaxHandles == 3       \* OSNDXFIO objects of the process in SpecRegistry
MaxRegistryOpens == 4 \* open calls of this object per behaviour of SpecRegistry
MaxListCreates == 2   \* records created per behaviour of SpecList
MaxListOpens == 1     \* open calls per behaviour of SpecList
MaxListDeletes == 3   \* deleteRecord calls that return true per behaviour of SpecList
MaxOffset == 3        \* the largest offset of a segment drawn in SpecValid

-----------------------------------------------------------------------------
(* Program constants. *)

INVALID_VALUE == -1
EOF_POSITION == -1
NDXFIO_VERSION == 16777216
MAX_MALLOC == 1073741824
eRESERVED == -2
eOK == -1
eDELETED == 0
eHEADER == -4
eINDEX == -3
eNEXT_INDEX == -2
eDELETED_DATA == -1
eDATA == 0
tBYTE == 1
tS16 == 2
tU16 == 3
tS32 == 4
tU32 == 5
MAXIMUM_DATA_SIZE == 1000
MINIMUM_RESERVED_INDEX_RECORDS == 10
DEFAULT_RESERVED_INDEX_RECORDS == 100
MAXIMUM_RESERVED_INDEX_RECORDS == 10000
DEFAULT_ALLOCATED_INDEX_KEYS == 50000
SizeofData == 16
SizeofIndex == 20
SizeofHeader == 36
SizeofKeySegment == 4
SizeofNrOfSegments == 2

\* Values an uninitialised 32-bit word may hold.
Garbage32 == {0, -1}

\* What the file image keeps in a word that was written from an uninitialised
\* field.  disk.indeterminate holds the offsets of these words; a call that
\* uses such a word takes its value from Garbage32 (Resolve).
Indeterminate == 0

-----------------------------------------------------------------------------
(* 32-bit words and bytes. *)

Pow24 == 16777216
MaxS32 == 2147483647
MinS32 == -2147483647 - 1

\* (U32)( a + b ): addition modulo 2^32 on two's complement values.
Add32(a, b) ==
    IF a > 0 /\ b > 0 /\ a > MaxS32 - b THEN (a + MinS32) + (b + MinS32)
    ELSE IF a < 0 /\ b < 0 /\ a < MinS32 - b THEN (a - MinS32) + (b - MinS32)
    ELSE a + b

\* Unsigned comparison of two 32-bit words.
ULess(a, b) ==
    IF (a >= 0) = (b >= 0) THEN a < b ELSE a >= 0

ULeq(a, b) == a = b \/ ULess(a, b)

\* The four bytes of a 32-bit word, little endian.
Bytes32(w) ==
    LET lo == w % Pow24
        hi == ((w - lo) \div Pow24) % 256
    IN << lo % 256, (lo \div 256) % 256, lo \div 65536, hi >>

\* The 32-bit word stored little endian at bytes p+1 .. p+4 of b.
Word32(b, p) ==
    b[p + 1] + 256 * b[p + 2] + 65536 * b[p + 3]
      + Pow24 * (IF b[p + 4] >= 128 THEN b[p + 4] - 256 ELSE b[p + 4])

Bytes16(w) == << w % 256, (w \div 256) % 256 >>

Word16(b, p) == b[p + 1] + 256 * b[p + 2]

Fill(n, v) == [i \in 1..n |-> v]

\* memcmp( a, b, n ): -1, 0 or 1.
RECURSIVE memcmp(_, _, _)
memcmp(a, b, n) ==
    IF n = 0 THEN 0
    ELSE IF a[1] < b[1] THEN -1
    ELSE IF a[1] > b[1] THEN 1
    ELSE memcmp(Tail(a), Tail(b), n - 1)

-----------------------------------------------------------------------------
(* The persisted structures. *)

\* struct sDATA, 16 bytes.
EncData(d) == Bytes32(d.id) \o Bytes32(d.recordRef) \o Bytes32(d.size) \o Bytes32(d.offset)

DecData(b) ==
    [id |-> Word32(b, 0), recordRef |-> Word32(b, 4),
     size |-> Word32(b, 8), offset |-> Word32(b, 12)]

\* struct sINDEX, 20 bytes.
EncIndex(x) ==
    Bytes32(x.status) \o Bytes32(x.offset) \o Bytes32(x.dataOffset)
      \o Bytes32(x.dataSize) \o Bytes32(x.recordRef)

DecIndex(b) ==
    [status |-> Word32(b, 0), offset |-> Word32(b, 4), dataOffset |-> Word32(b, 8),
     dataSize |-> Word32(b, 12), recordRef |-> Word32(b, 16)]

\* sINDEX::sINDEX()
NewIndex ==
    [status |-> eRESERVED, offset |-> INVALID_VALUE, dataOffset |-> INVALID_VALUE,
     dataSize |-> 0, recordRef |-> 0]

\* struct sHEADER, 36 bytes.
EncHeader(h) ==
    Bytes32(h.version) \o Bytes32(h.recordReference) \o Bytes32(h.nextFreeData)
      \o Bytes32(h.nrOfRecords) \o Bytes32(h.nrOfIndexRecords)
      \o Bytes32(h.lastDeletedIndex) \o Bytes32(h.nextFreeIndex)
      \o Bytes16(h.reservedIndexRecords) \o Bytes16(h.nrOfKeys)
      \o Bytes16(h.totalKeySize) \o Bytes16(h.keyDescriptorSize)

DecHeader(b) ==
    [version |-> Word32(b, 0), recordReference |-> Word32(b, 4),
     nextFreeData |-> Word32(b, 8), nrOfRecords |-> Word32(b, 12),
     nrOfIndexRecords |-> Word32(b, 16), lastDeletedIndex |-> Word32(b, 20),
     nextFreeIndex |-> Word32(b, 24), reservedIndexRecords |-> Word16(b, 28),
     nrOfKeys |-> Word16(b, 30), totalKeySize |-> Word16(b, 32),
     keyDescriptorSize |-> Word16(b, 34)]

\* sHEADER::sHEADER()
NewHeader ==
    [version |-> NDXFIO_VERSION, recordReference |-> 0, nextFreeData |-> 0,
     nrOfRecords |-> 0, nrOfIndexRecords |-> 0, lastDeletedIndex |-> INVALID_VALUE,
     nextFreeIndex |-> 0, reservedIndexRecords |-> DEFAULT_RESERVED_INDEX_RECORDS,
     nrOfKeys |-> 0, totalKeySize |-> 0, keyDescriptorSize |-> 0]

\* struct sKEY_SEGMENT, 4 bytes.
EncSegment(s) == Bytes16(s.offset) \o << s.type, s.size >>

DecSegment(b) == [offset |-> Word16(b, 0), type |-> b[3], size |-> b[4]]

-----------------------------------------------------------------------------
(* OSFIO: a file is [bytes, pos, ro, left]; every call returns the new file *)
(* and whether it succeeded.  left is the number of calls of ::write that  *)
(* the system still carries out before one returns ERROR.                  *)

\* No call of ::write returns ERROR.
NoFault == -1

\* OSFIO::read( in_position, out_dataPtr, in_dataSize )
ReadAt(f, position, n) ==
    IF position < 0 THEN [ok |-> FALSE, data |-> << >>, f |-> f]
    ELSE LET len == Len(f.bytes)
             got == IF position >= len THEN 0
                    ELSE IF n <= len - position THEN n ELSE len - position
         IN [ok |-> got = n,
             data |-> SubSeq(f.bytes, position + 1, position + got),
             f |-> [f EXCEPT !.pos = position + got]]

\* OSFIO::read( out_dataPtr, in_dataSize )
ReadSeq(f, n) == ReadAt(f, f.pos, n)

\* ::write at the file position: overwrite, extend, zero-fill a gap.
PutBytes(bytes, position, data) ==
    LET end == position + Len(data)
        len == IF end > Len(bytes) THEN end ELSE Len(bytes)
    IN [i \in 1..len |->
           IF i > position /\ i <= end THEN data[i - position]
           ELSE IF i <= Len(bytes) THEN bytes[i] ELSE 0]

\* OSFIO::write( in_dataPtr, in_dataSize )
WriteSeq(f, data) ==
    IF f.ro \/ f.left = 0 THEN [ok |-> FALSE, f |-> f]
    ELSE [ok |-> TRUE,
          f |-> [f EXCEPT !.bytes = PutBytes(f.bytes, f.pos, data),
                          !.pos = f.pos + Len(data),
                          !.left = IF f.left = NoFault THEN NoFault ELSE f.left - 1]]

\* The calls of OSFIO::write for the elements of chunks, one after the other
\* as long as they succeed.
RECURSIVE WriteEach(_, _)
WriteEach(f, chunks) ==
    IF chunks = << >> THEN [ok |-> TRUE, f |-> f]
    ELSE LET w == WriteSeq(f, Head(chunks))
         IN IF w.ok THEN WriteEach(w.f, Tail(chunks)) ELSE w

\* OSFIO::write( in_position, in_dataPtr, in_dataSize )
WriteAt(f, position, data) ==
    IF position = EOF_POSITION THEN WriteSeq([f EXCEPT !.pos = Len(f.bytes)], data)
    ELSE IF position < 0 THEN [ok |-> FALSE, f |-> f]
    ELSE WriteSeq([f EXCEPT !.pos = position], data)

\* OSFIO::position()
Position(f) == f.pos

OpenFile(bytes, readOnly) ==
    [bytes |-> bytes, pos |-> 0, ro |-> readOnly, left |-> NoFault]

-----------------------------------------------------------------------------
(* Key descriptors and the key codec.  A key descriptor is the sequence of *)
(* its segments [offset, type, size]; nrOfSegments is its length.          *)

\* A window test that finds a segment only when it lies around the other.
OverlapOutsideOnly(a, c) ==
    a.offset < c.offset /\ a.size - 1 + a.offset > c.size - 1 + c.offset

\* The three window tests of isKeyDescriptorValid for segments a and c.
Overlap(a, c) ==
    LET startKey == a.offset
        stopKey == a.size - 1 + a.offset
        startKeyCheck == c.offset
        stopKeyCheck == c.size - 1 + c.offset
    IN \/ startKey >= startKeyCheck /\ startKey <= stopKeyCheck
       \/ stopKey >= startKeyCheck /\ stopKey <= stopKeyCheck
       \/ startKey < startKeyCheck /\ stopKey > stopKeyCheck

\* The switch on the segment type of isKeyDescriptorValid.
TypeSizeOk(s) ==
    CASE s.type = tBYTE -> s.size > 0
      [] s.type = tS16 -> s.size = 2
      [] s.type = tU16 -> s.size = 2
      [] s.type = tS32 -> s.size = 4
      [] s.type = tU32 -> s.size = 4
      [] OTHER -> FALSE

RECURSIVE SumSizes(_)
SumSizes(segs) == IF segs = << >> THEN 0 ELSE Head(segs).size + SumSizes(Tail(segs))

RECURSIVE SumKeySizes(_)
SumKeySizes(descs) ==
    IF descs = << >> THEN 0 ELSE SumSizes(Head(descs)) + SumKeySizes(Tail(descs))

RECURSIVE SumDescSizes(_)
SumDescSizes(descs) ==
    IF descs = << >> THEN 0
    ELSE SizeofNrOfSegments + SizeofKeySegment * Len(Head(descs)) + SumDescSizes(Tail(descs))

\* isKeyDescriptorValid( in_nrOfKeys, in_keyDesc, out_keyDescSize, out_totalKeySize )
isKeyDescriptorValid(in_nrOfKeys, in_keyDesc) ==
    LET descs == SubSeq(in_keyDesc, 1, in_nrOfKeys)
        bValid == \A i \in 1..in_nrOfKeys :
                     \A j \in 1..Len(descs[i]) :
                        /\ TypeSizeOk(descs[i][j])
                        /\ \A k \in 1..Len(descs[i]) :
                              j # k => ~Overlap(descs[i][j], descs[i][k])
    IN [bValid |-> bValid,
        keyDescSize |-> IF bValid THEN SumDescSizes(descs) % 65536 ELSE 0,
        totalKeySize |-> IF bValid THEN SumKeySizes(descs) % 65536 ELSE 0]

\* swap( U16* ) and swap( U32* ): reverse the bytes of the word at p+1 ..
swap16(b, p) == [b EXCEPT ![p + 1] = b[p + 2], ![p + 2] = b[p + 1]]

swap32(b, p) ==
    [b EXCEPT ![p + 1] = b[p + 4], ![p + 4] = b[p + 1],
              ![p + 2] = b[p + 3], ![p + 3] = b[p + 2]]

\* *pU16 += U16(0x8000) and *pU32 += U32(0x80000000) on a little endian CPU:
\* the addition flips the top bit of the most significant byte.
SignedCorrection(b, p, n) == [b EXCEPT ![p + n] = (b[p + n] + 128) % 256]

\* A convertKeySegment without the correction of the signed types.
convertKeySegmentUnsigned(b, p, type) ==
    CASE type = tBYTE -> [bResult |-> TRUE, b |-> b]
      [] type \in {tS16, tU16} -> [bResult |-> TRUE, b |-> swap16(b, p)]
      [] type \in {tS32, tU32} -> [bResult |-> TRUE, b |-> swap32(b, p)]
      [] OTHER -> [bResult |-> FALSE, b |-> b]

\* convertKeySegment( pKeySegment, in_keySegmentType ), little endian CPU.
convertKeySegment(b, p, type) ==
    CASE type = tBYTE -> [bResult |-> TRUE, b |-> b]
      [] type = tS16 -> [bResult |-> TRUE, b |-> swap16(SignedCorrection(b, p, 2), p)]
      [] type = tU16 -> [bResult |-> TRUE, b |-> swap16(b, p)]
      [] type = tS32 -> [bResult |-> TRUE, b |-> swap32(SignedCorrection(b, p, 4), p)]
      [] type = tU32 -> [bResult |-> TRUE, b |-> swap32(b, p)]
      [] OTHER -> [bResult |-> FALSE, b |-> b]

\* The segments of one descriptor as create() writes them to the file.
RECURSIVE AllSegmentBytes(_)
AllSegmentBytes(segs) ==
    IF segs = << >> THEN << >> ELSE EncSegment(Head(segs)) \o AllSegmentBytes(Tail(segs))

\* The segments of all descriptors in the order generateSearchKey visits them.
RECURSIVE AllSegments(_)
AllSegments(descs) ==
    IF descs = << >> THEN << >> ELSE Head(descs) \o AllSegments(Tail(descs))

\* generateSearchKey( pHandle, in_rRecord, out_pSearchKey ): the loop over the
\* segments; out is the key written so far.
RECURSIVE GenerateSegments(_, _, _)
GenerateSegments(segs, rec, out) ==
    IF segs = << >> THEN [bResult |-> TRUE, key |-> out]
    ELSE LET s == Head(segs)
         IN IF ~(s.offset + s.size <= rec.dataOffset + rec.dataSize)
            THEN [bResult |-> FALSE, key |-> out]
            ELSE LET copy == SubSeq(rec.pData, s.offset + 1, s.offset + s.size)
                     conv == convertKeySegment(copy, 0, s.type)
                 IN IF ~conv.bResult THEN [bResult |-> FALSE, key |-> out \o conv.b]
                    ELSE GenerateSegments(Tail(segs), rec, out \o conv.b)

generateSearchKey(descs, rec) == GenerateSegments(AllSegments(descs), rec, << >>)

-----------------------------------------------------------------------------
(* The in-memory index.  apKey is the sequence of the index entries, slot  *)
(* s at apKey[s + 1]: the sINDEX fields and the encoded keys that follow.  *)
(* apKeyIndex[k + 1] is the sKEY_INDEX of key k; apRecord[i + 1] is its    *)
(* i-th slot number.                                                       *)

\* An index entry as it lies in memory and in the file.
Entry(index, keyBytes) ==
    [status |-> index.status, offset |-> index.offset,
     dataOffset |-> index.dataOffset, dataSize |-> index.dataSize,
     recordRef |-> index.recordRef, key |-> keyBytes]

\* totalIndexSize bytes set by ::memset( .., INVALID_VALUE, .. ).
InvalidEntry(totalKeySize) ==
    [status |-> -1, offset |-> -1, dataOffset |-> -1, dataSize |-> -1,
     recordRef |-> -1, key |-> Fill(totalKeySize, 255)]

DecEntry(b, totalKeySize) ==
    Entry(DecIndex(b), SubSeq(b, SizeofIndex + 1, SizeofIndex + totalKeySize))

\* The encoded key of key index ki in the entry of slot.
SlotKey(apKey, slot, ki) ==
    SubSeq(apKey[slot + 1].key, ki.keyOffset - SizeofIndex + 1,
           ki.keyOffset - SizeofIndex + ki.keySize)

\* initKeyIndexArray( pHandle, key ) on the key index ki.
initKeyIndexArray(h, ki) ==
    IF h.allocatedIndexKeys < h.hdr.nrOfIndexRecords
    THEN [statusOk |-> FALSE, ki |-> ki]
    ELSE [statusOk |-> TRUE,
          ki |-> [ki EXCEPT
                    !.apRecord = [i \in 1..h.hdr.nrOfIndexRecords |->
                                     IF i <= ki.recordCount THEN ki.apRecord[i] ELSE i - 1],
                    !.recordCount = h.hdr.nrOfIndexRecords]]

\* initKeyArray( pHandle ) on an allocated apKey: the ::memset of the entries
\* from nrOfRecords up to nrOfIndexRecords.
initKeyArray(h) ==
    [i \in 1..(IF h.hdr.nrOfIndexRecords > Len(h.apKey)
               THEN h.hdr.nrOfIndexRecords ELSE Len(h.apKey)) |->
        IF i > h.hdr.nrOfRecords /\ i <= h.hdr.nrOfIndexRecords
        THEN InvalidEntry(h.hdr.totalKeySize)
        ELSE h.apKey[i]]

\* createReservedIndexRecords( handle, filePointer, reservedIndexRecords,
\* totalKeySize ); recordRef is the value of the uninitialised record.recordRef.
createReservedIndexRecords(f, filePointer, reservedIndexRecords, totalKeySize, recordRef) ==
    LET indexOffset == filePointer + SizeofData
        totalIndexSize == SizeofIndex + totalKeySize
        size == reservedIndexRecords * totalIndexSize
        record == [id |-> eINDEX, recordRef |-> recordRef, size |-> size,
                   offset |-> indexOffset + size]
        w == WriteAt(f, filePointer, EncData(record))
        RECURSIVE Entries(_)
        Entries(j) ==
            IF j = reservedIndexRecords THEN << >>
            ELSE EncIndex([NewIndex EXCEPT !.offset = indexOffset + j * totalIndexSize])
                   \o Fill(totalKeySize, 0) \o Entries(j + 1)
        RECURSIVE EntryWrites(_)
        EntryWrites(j) ==
            IF j = reservedIndexRecords THEN << >>
            ELSE << EncIndex([NewIndex EXCEPT !.offset = indexOffset + j * totalIndexSize]),
                    Fill(totalKeySize, 0) >> \o EntryWrites(j + 1)
        next == [id |-> eNEXT_INDEX, recordRef |-> recordRef, size |-> 0, offset |-> 0]
    IN IF ~w.ok THEN [statusOk |-> FALSE, f |-> w.f]
       ELSE IF w.f.left = NoFault
       THEN [statusOk |-> TRUE, f |-> WriteSeq(w.f, Entries(0) \o EncData(next)).f]
       ELSE LET we == WriteEach(w.f, EntryWrites(0) \o << EncData(next) >>)
            IN [statusOk |-> we.ok, f |-> we.f]

\* The initial increment gap of shellSort.
RECURSIVE GrowGap(_, _)
GrowGap(incrementalGap, nrOfRecords) ==
    LET g == incrementalGap * 3 + 1
    IN IF g < nrOfRecords THEN GrowGap(g, nrOfRecords) ELSE g

\* The number of records up to which shellSort is a straight insertion sort.
StraightInsertionMax == 13

\* An initial gap without the straight insertion sort of 13 records or less.
InitialGapKnuth(nrOfRecords) == (GrowGap(1, nrOfRecords) \div 3) \div 3

InitialGap(nrOfRecords) ==
    IF nrOfRecords <= StraightInsertionMax THEN 1
    ELSE (GrowGap(1, nrOfRecords) \div 3) \div 3

\* The inner do-while of shellSort: moves the entries that are greater than
\* slot indexI up by one gap, starting at position j, and stores indexI.
RECURSIVE ShiftUp(_, _, _, _, _, _)
ShiftUp(a, j, gap, indexI, apKey, ki) ==
    LET a1 == [a EXCEPT ![j + 1] = a[j - gap + 1]]
        j1 == j - gap
        bMinusInc == j1 >= gap
    IN IF bMinusInc /\ memcmp(SlotKey(apKey, a1[j1 - gap + 1], ki),
                              SlotKey(apKey, indexI, ki), ki.keySize) > 0
       THEN ShiftUp(a1, j1, gap, indexI, apKey, ki)
       ELSE [a1 EXCEPT ![j1 + 1] = indexI]

\* The for loop of shellSort for one gap, from position i on.
RECURSIVE GapPass(_, _, _, _, _, _)
GapPass(a, i, gap, nrOfRecords, apKey, ki) ==
    IF ~(i < nrOfRecords) THEN a
    ELSE IF memcmp(SlotKey(apKey, a[i - gap + 1], ki),
                   SlotKey(apKey, a[i + 1], ki), ki.keySize) > 0
    THEN GapPass(ShiftUp(a, i, gap, a[i + 1], apKey, ki), i + 1, gap, nrOfRecords,
                 apKey, ki)
    ELSE GapPass(a, i + 1, gap, nrOfRecords, apKey, ki)

\* The outer do-while of shellSort over the diminishing gaps.
RECURSIVE GapLoop(_, _, _, _, _)
GapLoop(a, gap, nrOfRecords, apKey, ki) ==
    LET a1 == GapPass(a, gap, gap, nrOfRecords, apKey, ki)
    IN IF gap \div 3 > 0 THEN GapLoop(a1, gap \div 3, nrOfRecords, apKey, ki) ELSE a1

\* shellSort( pHandle, in_keyId ): the sorted sKEY_INDEX of key in_keyId.
shellSort(h, in_keyId) ==
    LET ki == h.apKeyIndex[in_keyId + 1]
    IN [ki EXCEPT
          !.apRecord = GapLoop(ki.apRecord, InitialGap(h.hdr.nrOfRecords),
                               h.hdr.nrOfRecords, h.apKey, ki),
          !.bSorted = TRUE]

-----------------------------------------------------------------------------
(* open, close, create.  The operators return what the call leaves behind: *)
(* statusOk, the handle, the last error and (create, createRecord) the     *)
(* bytes of the file.                                                      *)

DatabaseName == "testDb1.dat"
RebuildName == "rebuildDb.dat"
MissingName == "missing.dat"
NullName == "NULL"

\* A file that is not there.
NoFile == [exists |-> FALSE, bytes |-> << >>, indeterminate |-> {}]

\* The file of a name: the database file, the file of rebuild(), or none.
FileNamed(in_fileName) ==
    IF in_fileName = DatabaseName THEN disk
    ELSE IF in_fileName = RebuildName THEN rebuilt
    ELSE NoFile

\* isDatabaseNameValid( in_databaseName ): the comparison with the literal
\* compares addresses and never rejects a name.
isDatabaseNameValid(in_databaseName) == in_databaseName # NullName

\* The file of the open store h as its OSFIO handle sees it.
FileOf(h, bytes) == [OpenFile(bytes, h.readOnly) EXCEPT !.left = h.writes]

\* A close() that leaves the last error as it is.
closeKeepsError(mh, merr, fileOpen) ==
    [result |-> merr # "NO_DATABASE", m_handle |-> << >>, m_error |-> merr]

\* A close() that does not release the store.
closeKeepsStore(mh, merr, fileOpen) ==
    LET err == IF mh # << >> /\ ~fileOpen THEN "NO_DATABASE" ELSE merr
    IN [result |-> err # "NO_DATABASE", m_handle |-> mh, m_error |-> err]

\* OSNDXFIO::close(): [result, m_handle, m_error].  fileOpen tells whether
\* the OSFIO handle of the store holds an open file.
close(mh, merr, fileOpen) ==
    LET err == IF mh # << >> /\ ~fileOpen THEN "NO_DATABASE" ELSE merr
    IN [result |-> err # "NO_DATABASE", m_handle |-> << >>, m_error |-> err]

\* The loop of open() that reads the key descriptors: key i of nrOfKeys.
RECURSIVE ReadDescriptors(_, _, _)
ReadDescriptors(f, i, nrOfKeys) ==
    IF i = nrOfKeys THEN [statusOk |-> TRUE, descs |-> << >>, f |-> f]
    ELSE LET r1 == ReadSeq(f, SizeofNrOfSegments)
         IN IF ~r1.ok THEN [statusOk |-> FALSE, descs |-> << >>, f |-> r1.f]
            ELSE LET nrOfSegments == Word16(r1.data, 0)
                     r2 == ReadSeq(r1.f, nrOfSegments * SizeofKeySegment)
                 IN IF ~r2.ok THEN [statusOk |-> FALSE, descs |-> << >>, f |-> r2.f]
                    ELSE LET segs == [j \in 1..nrOfSegments |->
                                 DecSegment(SubSeq(r2.data, 4 * j - 3, 4 * j))]
                             rest == ReadDescriptors(r2.f, i + 1, nrOfKeys)
                         IN [rest EXCEPT !.descs = << segs >> \o rest.descs]

\* The loop of open() that reads the index entries: entry k, following the
\* NEXT_INDEX record when a block of reservedIndexRecords has been read.
RECURSIVE ReadEntries(_, _, _, _)
ReadEntries(f, k, reservedIndexCounter, hdr) ==
    IF k = hdr.nrOfIndexRecords THEN [statusOk |-> TRUE, entries |-> << >>]
    ELSE IF reservedIndexCounter = hdr.reservedIndexRecords
    THEN LET r1 == ReadSeq(f, SizeofData)
             next == DecData(r1.data)
             r2 == ReadAt(r1.f, next.size, SizeofData)
         IN IF r1.ok /\ next.id = eNEXT_INDEX /\ r2.ok /\ DecData(r2.data).id = eINDEX
            THEN ReadEntries(r2.f, k, 0, hdr)
            ELSE [statusOk |-> FALSE, entries |-> << >>]
    ELSE LET r == ReadSeq(f, SizeofIndex + hdr.totalKeySize)
         IN IF ~r.ok THEN [statusOk |-> FALSE, entries |-> << >>]
            ELSE LET rest == ReadEntries(r.f, k + 1, reservedIndexCounter + 1, hdr)
                 IN [rest EXCEPT !.entries = << DecEntry(r.data, hdr.totalKeySize) >> \o rest.entries]

\* The sKEY_INDEX array of open(): zeroed memory, then keyOffset and keySize.
RECURSIVE NewKeyIndexes(_, _)
NewKeyIndexes(descs, keyOffset) ==
    IF descs = << >> THEN << >>
    ELSE << [apRecord |-> << >>, recordCount |-> 0, position |-> 0,
             selectionStart |-> 0, selectionEnd |-> 0, keyOffset |-> keyOffset,
             keySize |-> SumSizes(Head(descs)), bSorted |-> FALSE] >>
           \o NewKeyIndexes(Tail(descs), keyOffset + SumSizes(Head(descs)))

\* The return of open() when it fails: close() and the error it leaves.
openFailed(mh, err, fileOpen) ==
    [statusOk |-> FALSE, m_handle |-> close(mh, err, fileOpen).m_handle,
     m_error |-> close(mh, err, fileOpen).m_error]

\* open(): the key arrays are sorted and the handle is kept.
openSorted(h1) ==
    [statusOk |-> TRUE,
     m_handle |-> << [h1 EXCEPT !.apKeyIndex = [k \in 1..Len(h1.apKeyIndex) |->
                                                   shellSort(h1, k - 1)]] >>,
     m_error |-> "NO_ERROR"]

\* open(): the key index arrays and the index entries r5 read from the file.
openEntries(h0, r5) ==
    IF ~r5.statusOk THEN openFailed(<< h0 >>, "MEMORY_ALLOCATION_ERROR", TRUE)
    ELSE openSorted([h0 EXCEPT
                       !.apKeyIndex = [k \in 1..Len(h0.apKeyIndex) |->
                                          initKeyIndexArray(h0, h0.apKeyIndex[k]).ki],
                       !.apKey = r5.entries])

\* open(): the INDEX record r4 that precedes the index entries, and the entries.
ReadIndex(r4, hdr) ==
    IF r4.ok /\ DecData(r4.data).id = eINDEX THEN ReadEntries(r4.f, 0, 0, hdr)
    ELSE [statusOk |-> FALSE, entries |-> << >>]

\* open(): the check v of the key descriptors read, then the index.
openIndex(hdr, f, h0, v) ==
    IF ~(v.bValid /\ v.keyDescSize = hdr.keyDescriptorSize
         /\ v.totalKeySize = hdr.totalKeySize)
    THEN openFailed(<< h0 >>, "INVALID_KEY_DESCRIPTOR", TRUE)
    ELSE openEntries(h0, ReadIndex(ReadSeq(f, SizeofData), hdr))

\* The handle of open() when the header and the key descriptors are read.
OpenedHandle(in_readOnly, allocatedIndexKeys, hdr, descs) ==
    [hdr |-> hdr, readOnly |-> in_readOnly, writes |-> NoFault,
     allocatedIndexKeys |-> IF in_readOnly THEN hdr.nrOfIndexRecords
                            ELSE allocatedIndexKeys,
     apKeyIndex |-> NewKeyIndexes(descs, SizeofIndex), apKey |-> << >>,
     apKeyDescriptor |-> descs, totalIndexSize |-> SizeofIndex + hdr.totalKeySize]

\* open(): the key descriptors r3 read from the file.
openDescriptors(in_readOnly, allocatedIndexKeys, hdr, r3) ==
    IF ~r3.statusOk THEN openFailed(<< NewHeader >>, "MEMORY_ALLOCATION_ERROR", TRUE)
    ELSE openIndex(hdr, r3.f,
                   OpenedHandle(in_readOnly, allocatedIndexKeys, hdr, r3.descs),
                   isKeyDescriptorValid(hdr.nrOfKeys, r3.descs))

\* open(): the header hdr read from the file, f the file behind it.
openKeys(in_readOnly, in_allocatedIndexKeys, hdr, f) ==
    IF ~(hdr.nrOfIndexRecords + in_allocatedIndexKeys < MAX_MALLOC)
    THEN openFailed(<< NewHeader >>, "MEMORY_ALLOCATION_ERROR", TRUE)
    ELSE openDescriptors(in_readOnly, hdr.nrOfIndexRecords + in_allocatedIndexKeys, hdr,
                         ReadDescriptors(f, 0, hdr.nrOfKeys))

\* open(): the HEADER record r1 and the header r2 behind it.
openHeader(in_readOnly, in_allocatedIndexKeys, r1, r2) ==
    IF ~(r1.ok /\ DecData(r1.data).id = eHEADER /\ r2.ok)
    THEN openFailed(<< NewHeader >>, "DATABASE_IO_ERROR", TRUE)
    ELSE openKeys(in_readOnly, in_allocatedIndexKeys, DecHeader(r2.data), r2.f)

\* open(): the file f0 has been opened.
openFile(in_readOnly, in_allocatedIndexKeys, r1) ==
    openHeader(in_readOnly, in_allocatedIndexKeys, r1, ReadSeq(r1.f, SizeofHeader))

\* An open() that opens the file on a handle that holds an open store.
openAgain(d, mh, in_databaseName, in_readOnly, in_allocatedIndexKeys) ==
    IF ~isDatabaseNameValid(in_databaseName)
    THEN openFailed(mh, "INVALID_PARAMETERS", TRUE)
    ELSE IF ~d.exists THEN openFailed(<< NewHeader >>, "MEMORY_ALLOCATION_ERROR", FALSE)
    ELSE openFile(in_readOnly, in_allocatedIndexKeys,
                  ReadSeq(OpenFile(d.bytes, in_readOnly), SizeofData))

\* OSNDXFIO::open( in_databaseName, in_readOnly, in_allocatedIndexKeys ) on
\* the file d: [statusOk, m_handle, m_error].
open(d, mh, in_databaseName, in_readOnly, in_allocatedIndexKeys) ==
    IF ~isDatabaseNameValid(in_databaseName)
    THEN openFailed(mh, "INVALID_PARAMETERS", TRUE)
    ELSE IF mh # << >> THEN openFailed(mh, "DATABASE_ALREADY_OPENED", TRUE)
    ELSE IF ~d.exists THEN openFailed(<< NewHeader >>, "MEMORY_ALLOCATION_ERROR", FALSE)
    ELSE openFile(in_readOnly, in_allocatedIndexKeys,
                  ReadSeq(OpenFile(d.bytes, in_readOnly), SizeofData))

\* The offsets of the words createReservedIndexRecords writes from the
\* uninitialised record.recordRef: in the INDEX record and in the NEXT_INDEX
\* record of the block at filePointer.
BlockIndeterminate(filePointer, reservedIndexRecords, totalKeySize) ==
    {filePointer + 4,
     filePointer + SizeofData + reservedIndexRecords * (SizeofIndex + totalKeySize) + 4}

\* The file image with the indeterminate words taking the values sel gives.
Resolve(bytes, sel) ==
    [i \in 1..Len(bytes) |->
        IF \E o \in DOMAIN sel : i - 1 \in o..(o + 3)
        THEN LET o == CHOOSE o \in DOMAIN sel : i - 1 \in o..(o + 3)
             IN Bytes32(sel[o])[i - o]
        ELSE bytes[i]]

\* The bytes create() writes: the header frame with the key descriptors.
\* recordRef and offset are the values of the uninitialised fields of record.
HeaderFrame(in_nrOfKeys, in_keyDescriptor, in_reservedIndexRecords, v, recordRef, offset) ==
    LET size == SizeofHeader + v.keyDescSize
        nextFreeIndex == SizeofData + size + SizeofData
        header == [NewHeader EXCEPT
                     !.reservedIndexRecords = in_reservedIndexRecords,
                     !.nrOfIndexRecords = in_reservedIndexRecords,
                     !.nextFreeIndex = nextFreeIndex,
                     !.nextFreeData = nextFreeIndex
                         + in_reservedIndexRecords * (SizeofIndex + v.totalKeySize)
                         + SizeofData,
                     !.nrOfKeys = in_nrOfKeys,
                     !.totalKeySize = v.totalKeySize,
                     !.keyDescriptorSize = v.keyDescSize]
        RECURSIVE Descs(_)
        Descs(i) ==
            IF i > in_nrOfKeys THEN << >>
            ELSE Bytes16(Len(in_keyDescriptor[i]))
                   \o AllSegmentBytes(in_keyDescriptor[i]) \o Descs(i + 1)
    IN EncData([id |-> eHEADER, recordRef |-> recordRef, size |-> size, offset |-> offset])
         \o EncHeader(header) \o Descs(1)

\* The return of create() when it fails.
createFailed(d, mh, err) ==
    [statusOk |-> FALSE, m_handle |-> mh, m_error |-> err, disk |-> d]

\* create(): the file d1 has been written and closed; o is what open()
\* returns for it.
createOpened(d1, o) ==
    [statusOk |-> o.statusOk, m_handle |-> o.m_handle, m_error |-> o.m_error,
     disk |-> d1]

createOpen(mh, in_databaseName, d1) ==
    createOpened(d1, open(d1, mh, in_databaseName, FALSE, DEFAULT_ALLOCATED_INDEX_KEYS))

\* create(): the header frame and the first block of reserved index records
\* w2 behind it.  The words written from uninitialised fields become
\* indeterminate.
createFile(mh, in_databaseName, in_reservedIndexRecords, v, frame, w2) ==
    createOpen(mh, in_databaseName,
               [exists |-> TRUE, bytes |-> w2.f.bytes,
                indeterminate |-> {4, 12} \cup BlockIndeterminate(Len(frame),
                                      in_reservedIndexRecords, v.totalKeySize)])

\* create(): the header frame written to the new file.
createFrame(mh, in_databaseName, in_reservedIndexRecords, v, frame) ==
    createFile(mh, in_databaseName, in_reservedIndexRecords, v, frame,
               createReservedIndexRecords(WriteSeq(OpenFile(<< >>, FALSE), frame).f,
                                          Len(frame), in_reservedIndexRecords,
                                          v.totalKeySize, Indeterminate))

\* A create() that writes the file whether it is there or not.
createValidOverwrites(d, mh, in_databaseName, in_nrOfKeys, in_keyDescriptor, in_reservedIndexRecords, v) ==
    IF ~v.bValid THEN createFailed(d, mh, "INVALID_KEY_DESCRIPTOR")
    ELSE createFrame(mh, in_databaseName, in_reservedIndexRecords, v,
                     HeaderFrame(in_nrOfKeys, in_keyDescriptor, in_reservedIndexRecords,
                                 v, Indeterminate, Indeterminate))

\* create(): the check v of the key descriptors.
createValid(d, mh, in_databaseName, in_nrOfKeys, in_keyDescriptor, in_reservedIndexRecords, v) ==
    IF ~v.bValid THEN createFailed(d, mh, "INVALID_KEY_DESCRIPTOR")
    ELSE IF d.exists THEN createFailed(d, mh, "DATABASE_ALREADY_EXIST")
    ELSE createFrame(mh, in_databaseName, in_reservedIndexRecords, v,
                     HeaderFrame(in_nrOfKeys, in_keyDescriptor, in_reservedIndexRecords,
                                 v, Indeterminate, Indeterminate))

\* OSNDXFIO::create( in_databaseName, in_nrOfKeys, in_keyDescriptor,
\* in_reservedIndexRecords ): [statusOk, m_handle, m_error, disk].
create(d, mh, merr, in_databaseName, in_nrOfKeys, in_keyDescriptor, in_reservedIndexRecords) ==
    IF \/ ~isDatabaseNameValid(in_databaseName)
       \/ in_nrOfKeys = 0
       \/ in_reservedIndexRecords < 10
       \/ in_reservedIndexRecords > MAXIMUM_RESERVED_INDEX_RECORDS
    THEN createFailed(d, mh, "INVALID_PARAMETERS")
    ELSE IF mh # << >> THEN createFailed(d, mh, "DATABASE_ALREADY_OPENED")
    ELSE createValid(d, mh, in_databaseName, in_nrOfKeys, in_keyDescriptor,
                     in_reservedIndexRecords,
                     isKeyDescriptorValid(in_nrOfKeys, in_keyDescriptor))

-----------------------------------------------------------------------------
(* Records.                                                                *)

\* The do-while of createRecord while deletedRecordAvailable holds: one pass
\* reads the index entry at indexOffset and verifies it.  A pass that fails
\* changes neither indexOffset nor deletedRecordAvailable, so the loop repeats
\* it for ever; so does a chain of prevDeletedIndex values that returns to an
\* offset already visited.
RECURSIVE DeletedLoop(_, _, _, _)
DeletedLoop(f, indexOffset, in_dataSize, visited) ==
    LET r1 == ReadAt(f, indexOffset, SizeofIndex)
        index == DecIndex(r1.data)
        r2 == ReadAt(r1.f, index.dataOffset, SizeofData)
        data == DecData(r2.data)
        statusOk == /\ r1.ok
                    /\ index.status >= eDELETED
                    /\ r2.ok
                    /\ data.id = eDELETED_DATA
                    /\ index.recordRef = data.recordRef
    IN IF ~statusOk THEN [hangs |-> TRUE]
       ELSE IF ULeq(in_dataSize, data.size)
       THEN [hangs |-> FALSE, statusOk |-> TRUE, index |-> index, data |-> data,
             f |-> r2.f, lastDeletedIndex |-> index.status]
       ELSE IF index.status \in (visited \cup {indexOffset}) THEN [hangs |-> TRUE]
       ELSE DeletedLoop(r2.f, index.status, in_dataSize, visited \cup {indexOffset})

\* The do-while of createRecord when no deleted record is available: the
\* entry at nextFreeIndex has to be RESERVED.
ReservedLoop(f, h) ==
    LET r == ReadAt(f, h.hdr.nextFreeIndex, SizeofIndex)
        index == IF r.ok THEN DecIndex(r.data) ELSE NewIndex
    IN [hangs |-> FALSE, statusOk |-> r.ok /\ index.status = eRESERVED,
        index |-> index, data |-> [id |-> 0, recordRef |-> 0, size |-> 0, offset |-> 0],
        f |-> r.f, lastDeletedIndex |-> h.hdr.lastDeletedIndex]

\* A block of reserved index records of which the header counts one less.
LinkedIndexBlockMiscounted(h, header, c, r, w) ==
    [statusOk |-> /\ Position(c.f) # INVALID_VALUE
                  /\ r.ok
                  /\ DecData(r.data).id = eNEXT_INDEX
                  /\ w.ok,
     f |-> IF Position(c.f) # INVALID_VALUE /\ r.ok /\ DecData(r.data).id = eNEXT_INDEX
           THEN w.f ELSE r.f,
     header |-> [header EXCEPT !.nextFreeIndex = header.nextFreeData + SizeofData,
                               !.nextFreeData = Position(c.f),
                               !.nrOfIndexRecords = header.nrOfIndexRecords
                                                    + h.hdr.reservedIndexRecords - 1],
     created |-> TRUE]

\* The block of createRecord that appends reserved index records when the
\* last one has been used, from the block c that createReservedIndexRecords
\* has written on: the NEXT_INDEX record behind the last entry is read (r)
\* and written back (w) with the offset of the block.
LinkedIndexBlock(h, header, c, r, w) ==
    [statusOk |-> /\ Position(c.f) # INVALID_VALUE
                  /\ r.ok
                  /\ DecData(r.data).id = eNEXT_INDEX
                  /\ w.ok,
     f |-> IF Position(c.f) # INVALID_VALUE /\ r.ok /\ DecData(r.data).id = eNEXT_INDEX
           THEN w.f ELSE r.f,
     header |-> [header EXCEPT !.nextFreeIndex = header.nextFreeData + SizeofData,
                               !.nextFreeData = Position(c.f),
                               !.nrOfIndexRecords = header.nrOfIndexRecords
                                                    + h.hdr.reservedIndexRecords],
     created |-> TRUE]

\* A link that holds the offset of the first entry of the new block.
LinkIndexBlockToEntry(h, header, c, nextIndexOffset, r) ==
    LinkedIndexBlock(h, header, c, r,
                     WriteAt(r.f, nextIndexOffset,
                             EncData([DecData(r.data) EXCEPT
                                        !.size = header.nextFreeData + SizeofData,
                                        !.offset = header.nextFreeData + SizeofData])))

\* The NEXT_INDEX record r behind the last entry of the current block, with
\* the offset of the new block in nextIndexOffset and offset.
LinkIndexBlock(h, header, c, nextIndexOffset, r) ==
    LinkedIndexBlock(h, header, c, r,
                     WriteAt(r.f, nextIndexOffset,
                             EncData([DecData(r.data) EXCEPT
                                        !.size = header.nextFreeData,
                                        !.offset = header.nextFreeData])))

AppendedIndexBlock(h, header, c, nextIndexOffset) ==
    IF ~c.statusOk THEN [statusOk |-> FALSE, f |-> c.f, header |-> header, created |-> FALSE]
    ELSE LinkIndexBlock(h, header, c, nextIndexOffset,
                        ReadAt(c.f, nextIndexOffset, SizeofData))

\* [statusOk, f, header, created].
AppendIndexBlock(f, h, header) ==
    AppendedIndexBlock(h, header,
                       createReservedIndexRecords(f, header.nextFreeData,
                                                  h.hdr.reservedIndexRecords,
                                                  h.hdr.totalKeySize, Indeterminate),
                       h.hdr.nextFreeIndex + SizeofIndex + header.totalKeySize)

\* What createRecord leaves behind:
\* [pc, statusOk, h, m_error, bytes, out_rIndex, indeterminate].  pc is "hung"
\* when the call never returns and "undefined" when it writes outside the
\* allocated index memory; indeterminate holds the words of a new index block
\* that were written from uninitialised fields.
createRecordReturn(pc0, statusOk, h, err, bytes, out_rIndex, indeterminate) ==
    [pc |-> pc0, statusOk |-> statusOk, h |-> h, m_error |-> err, bytes |-> bytes,
     out_rIndex |-> out_rIndex, indeterminate |-> indeterminate]

\* createRecord: the entry of the new record in the index memory of h2.
createRecordEntry(h2, gk, index, prevNrOfRecords, bytes, indeterminate) ==
    IF prevNrOfRecords >= Len(h2.apKey)
    THEN createRecordReturn("undefined", TRUE, h2, "NO_ERROR", bytes, prevNrOfRecords,
                            indeterminate)
    ELSE createRecordReturn("idle", TRUE,
             [h2 EXCEPT !.apKey[prevNrOfRecords + 1] = Entry(index, gk.key),
                        !.apKeyIndex = [k \in 1..Len(h2.apKeyIndex) |->
                                           [h2.apKeyIndex[k] EXCEPT !.bSorted = FALSE]]],
             "NO_ERROR", bytes, prevNrOfRecords, indeterminate)

\* createRecord: the key index arrays and the index memory of h1 after a new
\* block of reserved index records.
GrownArrays(h1a) == [h1a EXCEPT !.apKey = initKeyArray(h1a)]

GrowArrays(h1) ==
    GrownArrays([h1 EXCEPT !.apKeyIndex = [k \in 1..Len(h1.apKeyIndex) |->
                               initKeyIndexArray(h1, h1.apKeyIndex[k]).ki]])

\* createRecord: the header w5 written to the file, then the arrays of the
\* handle h1 when a block was appended.
createRecordArrays(h1, gk, index, created, w5, indeterminate) ==
    IF ~w5.ok
    THEN createRecordReturn("idle", FALSE, h1, "DATABASE_IO_ERROR", w5.f.bytes,
                            INVALID_VALUE, indeterminate)
    ELSE IF created /\ ~(\A k \in 1..Len(h1.apKeyIndex) :
                            initKeyIndexArray(h1, h1.apKeyIndex[k]).statusOk)
    THEN createRecordReturn("idle", FALSE, h1, "MEMORY_ALLOCATION_ERROR", w5.f.bytes,
                            INVALID_VALUE, indeterminate)
    ELSE createRecordEntry(IF created THEN GrowArrays(h1) ELSE h1, gk, index,
                           h1.hdr.nrOfRecords, w5.f.bytes, indeterminate)

\* createRecord: the block blk of reserved index records, when one was due.
createRecordHeader(h, gk, index, blk, indeterminate) ==
    IF ~blk.statusOk
    THEN createRecordReturn("idle", FALSE, [h EXCEPT !.hdr = blk.header],
                            "DATABASE_IO_ERROR", blk.f.bytes, INVALID_VALUE,
                            {o \in indeterminate : o + 4 <= Len(blk.f.bytes)})
    ELSE createRecordArrays([h EXCEPT !.hdr = blk.header], gk, index, blk.created,
                            WriteAt(blk.f, SizeofData, EncHeader(blk.header)),
                            IF blk.created THEN indeterminate ELSE {})

\* createRecord: the header header0 of the store with the new record, and the
\* block of reserved index records when the last one has been used.
createRecordBlock(h, gk, index, header0, fw) ==
    createRecordHeader(h, gk, index,
        IF header0.nrOfRecords = h.hdr.nrOfIndexRecords
        THEN AppendIndexBlock(fw, h, header0)
        ELSE [statusOk |-> TRUE, f |-> fw, created |-> FALSE,
              header |-> [header0 EXCEPT !.nextFreeIndex = header0.nextFreeIndex
                              + SizeofIndex + header0.totalKeySize]],
        BlockIndeterminate(header0.nextFreeData, h.hdr.reservedIndexRecords,
                           h.hdr.totalKeySize))

\* A createRecord whose header moves nextFreeData past the data of the record
\* and not past its sDATA.
createRecordWrittenDataOnly(h, in_rRecord, gk, found, index, w1, w2, w3, w4) ==
    IF ~(w1.ok /\ w2.ok /\ w3.ok /\ w4.ok)
    THEN createRecordReturn("idle", FALSE, h, "DATABASE_IO_ERROR",
             (IF ~w1.ok THEN w1.f ELSE IF ~w2.ok THEN w2.f
              ELSE IF ~w3.ok THEN w3.f ELSE w4.f).bytes,
             INVALID_VALUE, {})
    ELSE createRecordBlock(h, gk, index,
             [h.hdr EXCEPT !.lastDeletedIndex = found.lastDeletedIndex,
                           !.nrOfRecords = h.hdr.nrOfRecords + 1,
                           !.recordReference = Add32(h.hdr.recordReference, 1),
                           !.nextFreeData = h.hdr.nextFreeData + in_rRecord.dataSize],
             w4.f)

\* A createRecord whose header keeps its record reference.
createRecordWrittenSameReference(h, in_rRecord, gk, found, index, w1, w2, w3, w4) ==
    IF ~(w1.ok /\ w2.ok /\ w3.ok /\ w4.ok)
    THEN createRecordReturn("idle", FALSE, h, "DATABASE_IO_ERROR",
             (IF ~w1.ok THEN w1.f ELSE IF ~w2.ok THEN w2.f
              ELSE IF ~w3.ok THEN w3.f ELSE w4.f).bytes,
             INVALID_VALUE, {})
    ELSE createRecordBlock(h, gk, index,
             [h.hdr EXCEPT !.lastDeletedIndex = found.lastDeletedIndex,
                           !.nrOfRecords = h.hdr.nrOfRecords + 1,
                           !.nextFreeData = h.hdr.nextFreeData + SizeofData
                                            + in_rRecord.dataSize],
             w4.f)

\* createRecord: the writes w1 .. w4 of the data record, the record's bytes,
\* the index entry and the keys.
createRecordWritten(h, in_rRecord, gk, found, index, w1, w2, w3, w4) ==
    IF ~(w1.ok /\ w2.ok /\ w3.ok /\ w4.ok)
    THEN createRecordReturn("idle", FALSE, h, "DATABASE_IO_ERROR",
             (IF ~w1.ok THEN w1.f ELSE IF ~w2.ok THEN w2.f
              ELSE IF ~w3.ok THEN w3.f ELSE w4.f).bytes,
             INVALID_VALUE, {})
    ELSE createRecordBlock(h, gk, index,
             [h.hdr EXCEPT !.lastDeletedIndex = found.lastDeletedIndex,
                           !.nrOfRecords = h.hdr.nrOfRecords + 1,
                           !.recordReference = Add32(h.hdr.recordReference, 1),
                           !.nextFreeData = h.hdr.nextFreeData + SizeofData
                                            + in_rRecord.dataSize],
             w4.f)

createRecordWrite3(h, in_rRecord, gk, found, index, w1, w2, w3) ==
    createRecordWritten(h, in_rRecord, gk, found, index, w1, w2, w3,
                        WriteSeq(w3.f, gk.key))

createRecordWrite2(h, in_rRecord, gk, found, index, w1, w2) ==
    createRecordWrite3(h, in_rRecord, gk, found, index, w1, w2,
                       WriteAt(w2.f, index.offset, EncIndex(index)))

createRecordWrite1(h, in_rRecord, gk, found, index, w1) ==
    createRecordWrite2(h, in_rRecord, gk, found, index, w1,
                       WriteSeq(w1.f, SubSeq(in_rRecord.pData, in_rRecord.dataOffset + 1,
                                             in_rRecord.dataOffset + in_rRecord.dataSize)))

\* createRecord: the index entry index of the record and its data record.
createRecordWrite(h, in_rRecord, gk, found, index) ==
    createRecordWrite1(h, in_rRecord, gk, found, index,
        WriteAt(found.f, index.dataOffset,
                EncData(IF found.index.status = eRESERVED
                        THEN [id |-> eDATA, recordRef |-> index.recordRef,
                              size |-> in_rRecord.dataSize,
                              offset |-> index.dataOffset + SizeofData
                                         + in_rRecord.dataSize]
                        ELSE found.data)))

\* A createRecord that has taken the record reference when it finds the
\* record too small.
createRecordFoundCounted(h, bytes, in_rRecord, gk, found) ==
    IF ~gk.bResult
    THEN createRecordReturn("idle", FALSE,
                            [h EXCEPT !.hdr.recordReference = h.hdr.recordReference + 1],
                            "RECORD_TOO_SMALL", bytes, INVALID_VALUE, {})
    ELSE IF found.hangs
    THEN createRecordReturn("hung", FALSE, h, "DATABASE_IO_ERROR", bytes, INVALID_VALUE, {})
    ELSE IF ~found.statusOk
    THEN createRecordReturn("idle", FALSE, h, "DATABASE_IO_ERROR", bytes, INVALID_VALUE, {})
    ELSE createRecordWrite(h, in_rRecord, gk, found,
             IF found.index.status = eRESERVED
             THEN [found.index EXCEPT !.status = eOK,
                                      !.dataOffset = h.hdr.nextFreeData,
                                      !.dataSize = in_rRecord.dataSize,
                                      !.recordRef = h.hdr.recordReference]
             ELSE found.index)

\* createRecord: the index entry found for the record, a deleted one or the
\* next reserved one.
createRecordFound(h, bytes, in_rRecord, gk, found) ==
    IF ~gk.bResult
    THEN createRecordReturn("idle", FALSE, h, "RECORD_TOO_SMALL", bytes, INVALID_VALUE, {})
    ELSE IF found.hangs
    THEN createRecordReturn("hung", FALSE, h, "DATABASE_IO_ERROR", bytes, INVALID_VALUE, {})
    ELSE IF ~found.statusOk
    THEN createRecordReturn("idle", FALSE, h, "DATABASE_IO_ERROR", bytes, INVALID_VALUE, {})
    ELSE createRecordWrite(h, in_rRecord, gk, found,
             IF found.index.status = eRESERVED
             THEN [found.index EXCEPT !.status = eOK,
                                      !.dataOffset = h.hdr.nextFreeData,
                                      !.dataSize = in_rRecord.dataSize,
                                      !.recordRef = h.hdr.recordReference]
             ELSE found.index)

\* OSNDXFIO::createRecord( in_rRecord, out_rIndex ) on the open store h.
createRecord(h, bytes, in_rRecord) ==
    createRecordFound(h, bytes, in_rRecord,
                      generateSearchKey(h.apKeyDescriptor, in_rRecord),
                      IF h.hdr.lastDeletedIndex >= 0
                      THEN DeletedLoop(FileOf(h, bytes), h.hdr.lastDeletedIndex,
                                       in_rRecord.dataSize, {})
                      ELSE ReservedLoop(FileOf(h, bytes), h))

\* The index entry pIndex points to for in_index.  Memory past the entries
\* that were initialised holds any value: g gives its words.
IndexAt(h, in_index, g) ==
    IF in_index >= 0 /\ in_index < Len(h.apKey) THEN h.apKey[in_index + 1]
    ELSE [InvalidEntry(h.hdr.totalKeySize) EXCEPT
             !.status = g, !.dataOffset = g, !.recordRef = g]

\* A getRecord that reads the record's bytes at dataOffset, where the sDATA
\* record lies, and not behind it.
getRecordNoSkip(h, bytes, in_index, allocatedSize, g) ==
    LET pIndex == IndexAt(h, in_index, g)
        r1 == ReadAt(FileOf(h, bytes), pIndex.dataOffset, SizeofData)
        data == DecData(r1.data)
        r2 == ReadAt(r1.f, pIndex.dataOffset, data.size)
        failed(err) == [statusOk |-> FALSE, m_error |-> err, pData |-> << >>,
                        dataOffset |-> 0, dataSize |-> 0]
    IN IF ~r1.ok THEN failed("DATABASE_IO_ERROR")
       ELSE IF ~(data.id >= eDATA /\ data.recordRef = pIndex.recordRef)
       THEN failed("INDEX_CORRUPT")
       ELSE IF ~ULeq(data.size, allocatedSize) THEN failed("RECORD_TOO_LARGE")
       ELSE IF ~r2.ok THEN failed("DATABASE_IO_ERROR")
       ELSE [statusOk |-> TRUE, m_error |-> "NO_ERROR", pData |-> r2.data,
             dataOffset |-> pIndex.dataOffset, dataSize |-> data.size]

\* OSNDXFIO::getRecord( in_index, out_rRecord ):
\* [statusOk, m_error, pData, dataOffset, dataSize].
getRecord(h, bytes, in_index, allocatedSize, g) ==
    LET pIndex == IndexAt(h, in_index, g)
        r1 == ReadAt(FileOf(h, bytes), pIndex.dataOffset, SizeofData)
        data == DecData(r1.data)
        r2 == ReadAt(r1.f, Add32(pIndex.dataOffset, SizeofData), data.size)
        failed(err) == [statusOk |-> FALSE, m_error |-> err, pData |-> << >>,
                        dataOffset |-> 0, dataSize |-> 0]
    IN IF ~r1.ok THEN failed("DATABASE_IO_ERROR")
       ELSE IF ~(data.id >= eDATA /\ data.recordRef = pIndex.recordRef)
       THEN failed("INDEX_CORRUPT")
       ELSE IF ~ULeq(data.size, allocatedSize) THEN failed("RECORD_TOO_LARGE")
       ELSE IF ~r2.ok THEN failed("DATABASE_IO_ERROR")
       ELSE [statusOk |-> TRUE, m_error |-> "NO_ERROR", pData |-> r2.data,
             dataOffset |-> Add32(pIndex.dataOffset, SizeofData), dataSize |-> data.size]

\* getNextRecord: the record r that getRecord has read for the slot id
\* out_rIndex at the cursor.
getNextRecordRead(h, in_keyId, out_rIndex, r) ==
    [statusOk |-> r.statusOk,
     h |-> [h EXCEPT !.apKeyIndex[in_keyId + 1].position =
                         h.apKeyIndex[in_keyId + 1].position + 1],
     m_error |-> r.m_error, out_rIndex |-> out_rIndex, pData |-> r.pData,
     dataSize |-> r.dataSize]

\* OSNDXFIO::getNextRecord( in_keyId, out_rRecord, out_rIndex ):
\* [statusOk, h, m_error, out_rIndex, pData, dataSize].
getNextRecord(h, bytes, in_keyId, allocatedSize, g) ==
    IF h.apKeyIndex[in_keyId + 1].position = h.apKeyIndex[in_keyId + 1].selectionEnd
    THEN [statusOk |-> FALSE, h |-> h, m_error |-> "ENTRY_NOT_FOUND",
          out_rIndex |-> INVALID_VALUE, pData |-> << >>, dataSize |-> 0]
    ELSE getNextRecordRead(h, in_keyId,
             h.apKeyIndex[in_keyId + 1].apRecord[h.apKeyIndex[in_keyId + 1].position + 1],
             getRecord(h, bytes,
                 h.apKeyIndex[in_keyId + 1].apRecord[h.apKeyIndex[in_keyId + 1].position + 1],
                 allocatedSize, g))

\* OSNDXFIO::deleteRecord( in_index ): [pc, statusOk, h, m_error].
deleteRecord(h, in_index, g) ==
    LET pIndex == IndexAt(h, in_index, g)
        statusOk == ULess(in_index, h.hdr.nrOfIndexRecords) /\ eOK = pIndex.status
    IN IF ~statusOk
       THEN [pc |-> "idle", statusOk |-> FALSE, h |-> h, m_error |-> "ENTRY_NOT_FOUND"]
       ELSE IF in_index >= Len(h.apKey)
       THEN [pc |-> "undefined", statusOk |-> TRUE, h |-> h, m_error |-> "ENTRY_NOT_FOUND"]
       ELSE [pc |-> "idle", statusOk |-> TRUE,
             h |-> [h EXCEPT !.apKey[in_index + 1].status = h.hdr.lastDeletedIndex,
                             !.hdr.lastDeletedIndex = in_index],
             m_error |-> "ENTRY_NOT_FOUND"]

\* OSNDXFIO::updateRecord( in_index, in_rRecord ): [statusOk, m_error].  The
\* record is verified against the space of the data record; nothing is
\* written.
updateRecord(h, bytes, in_index, in_rRecord, g) ==
    LET pIndex == IndexAt(h, in_index, g)
        r1 == ReadAt(FileOf(h, bytes), pIndex.dataOffset, SizeofData)
        data == DecData(r1.data)
    IN IF ~ULess(in_index, h.hdr.nrOfIndexRecords)
       THEN [statusOk |-> FALSE, m_error |-> "NO_ERROR"]
       ELSE IF ~r1.ok THEN [statusOk |-> FALSE, m_error |-> "DATABASE_IO_ERROR"]
       ELSE IF ~(data.id >= eDATA /\ data.recordRef = pIndex.recordRef)
       THEN [statusOk |-> FALSE, m_error |-> "INDEX_CORRUPT"]
       ELSE [statusOk |-> ULeq(in_rRecord.dataSize,
                               Add32(data.offset,
                                     0 - Add32(pIndex.dataOffset, SizeofData))),
             m_error |-> "RECORD_TOO_LARGE"]

\* OSNDXFIO::getNrOfRecords()
getNrOfRecords(h) == h.hdr.nrOfRecords

\* rebuild(): the memory createRecord reads for a record that getRecord has
\* read into the transfer buffer buf: getRecord has left the record's offset
\* in the file in dataOffset, so the bytes are taken that far behind the
\* start of the buffer, where the memory holds any value u.
RebuildImage(buf, dataOffset, dataSize, u) ==
    IF Len(buf) >= dataOffset + dataSize THEN buf
    ELSE buf \o Fill(dataOffset + dataSize - Len(buf), u)

\* rebuild(): createRecord of the new store has returned c.
RebuildCreated(st, c) ==
    [st EXCEPT !.statusOk = c.statusOk,
               !.pc = c.pc,
               !.h2 = << c.h >>,
               !.file = [exists |-> TRUE, bytes |-> c.bytes,
                         indeterminate |-> st.file.indeterminate \cup c.indeterminate]]

\* rebuild(): getRecord of the source has returned r.
RebuildCopied(st, r) ==
    IF ~r.statusOk THEN [st EXCEPT !.statusOk = FALSE, !.m_error = r.m_error]
    ELSE RebuildCreated(
             [st EXCEPT !.m_error = r.m_error,
                        !.buf = r.pData \o SubSeq(st.buf, Len(r.pData) + 1, Len(st.buf))],
             createRecord(st.h2[1], st.file.bytes,
                 [pData |-> RebuildImage(
                                r.pData \o SubSeq(st.buf, Len(r.pData) + 1, Len(st.buf)),
                                r.dataOffset, r.dataSize, st.u),
                  dataOffset |-> r.dataOffset, dataSize |-> r.dataSize]))

\* rebuild(): the transfer buffer is grown when the record of the index
\* entry is larger than in_maxDataSize; only then is allocatedSize set.  A
\* size beyond MAX_MALLOC is not allocated.
RebuildGrow(st, dataSize) ==
    IF ~ULess(st.in_maxDataSize, dataSize) THEN st
    ELSE [st EXCEPT !.in_maxDataSize = dataSize,
                    !.allocatedSize = dataSize,
                    !.grown = TRUE,
                    !.buf = IF dataSize < 0 \/ dataSize >= MAX_MALLOC THEN << >>
                            ELSE st.buf \o Fill(dataSize - Len(st.buf), st.u)]

\* rebuild(): the record of the index entry at index is read and created.
RebuildRecord(h, bytes, index, st) ==
    RebuildCopied(st, getRecord(h, bytes, index, st.allocatedSize, 0))

\* rebuild(): the loop over the index entries of the source from index on.
RECURSIVE RebuildLoop(_, _, _, _)
RebuildLoop(h, bytes, index, st) ==
    IF ~(st.statusOk /\ st.pc = "idle" /\ ULess(index, h.hdr.nrOfIndexRecords)) THEN st
    ELSE IF h.apKey[index + 1].status # eOK THEN RebuildLoop(h, bytes, index + 1, st)
    ELSE RebuildLoop(h, bytes, index + 1,
                     RebuildRecord(h, bytes, index,
                                   RebuildGrow(st, h.apKey[index + 1].dataSize)))

\* rebuild(): the return.  The buffer that is freed is the one malloc has
\* returned; when realloc has moved it, that block is freed a second time.
rebuildReturn(moved, st) ==
    [statusOk |-> st.statusOk, m_error |-> st.m_error, file |-> st.file,
     pc |-> IF st.pc # "idle" THEN st.pc
            ELSE IF st.grown /\ moved THEN "undefined" ELSE "idle"]

\* rebuild(): create() of the new store has returned c.
rebuildCreated(h, bytes, merr, in_maxDataSize, u, moved, c) ==
    rebuildReturn(moved,
        RebuildLoop(h, bytes, 0,
            [statusOk |-> c.statusOk, pc |-> "idle", m_error |-> merr,
             in_maxDataSize |-> in_maxDataSize, allocatedSize |-> 0, grown |-> FALSE,
             buf |-> Fill(in_maxDataSize, u), u |-> u,
             h2 |-> c.m_handle, file |-> c.disk]))

\* A rebuild that does not look at the number of records of the source.
rebuildUnchecked(h, bytes, merr, d2, in_databaseName, in_nrOfKeys, in_keyDescriptor, in_maxDataSize, u, moved) ==
    rebuildCreated(h, bytes, merr, in_maxDataSize, u, moved,
                   create(d2, << >>, "NO_ERROR", in_databaseName, in_nrOfKeys,
                          in_keyDescriptor, getNrOfRecords(h) % 65536))

\* OSNDXFIO::rebuild( in_databaseName, in_nrOfKeys, in_keyDescriptor,
\* in_maxDataSize ) of the open store h into the file d2:
\* [statusOk, m_error, file, pc].  u is the value of the memory that is read
\* without having been written, moved tells whether realloc moves the buffer.
rebuild(h, bytes, merr, d2, in_databaseName, in_nrOfKeys, in_keyDescriptor, in_maxDataSize, u, moved) ==
    IF getNrOfRecords(h) = 0
    THEN [statusOk |-> FALSE, m_error |-> "EMPTY_DATABASE", file |-> d2, pc |-> "idle"]
    ELSE rebuildCreated(h, bytes, merr, in_maxDataSize, u, moved,
                        create(d2, << >>, "NO_ERROR", in_databaseName, in_nrOfKeys,
                               in_keyDescriptor, getNrOfRecords(h) % 65536))

\* An sKEY as its constructor leaves it.  pValue is the caller's buffer.
sKEY(in_id, in_size, in_pValue) ==
    [id |-> in_id, size |-> in_size, pValue |-> in_pValue,
     conversionDone |-> FALSE, index |-> INVALID_VALUE, count |-> 0]

\* A loop of convertKey that takes a segment of bytes as it takes the others.
RECURSIVE ConvertWholeSegments(_, _, _, _)
ConvertWholeSegments(segs, b, p, keySizeLeft) ==
    IF segs = << >> \/ ~(keySizeLeft > 0)
    THEN [bResult |-> TRUE, b |-> b, keySizeLeft |-> keySizeLeft]
    ELSE LET seg == Head(segs)
             c == convertKeySegment(b, p, seg.type)
         IN IF ~c.bResult
            THEN [bResult |-> FALSE, b |-> c.b, keySizeLeft |-> keySizeLeft - seg.size]
            ELSE ConvertWholeSegments(Tail(segs), c.b, p + seg.size,
                                      keySizeLeft - seg.size)

\* The loop of convertKey over the segments of the key's descriptor.
RECURSIVE ConvertSegments(_, _, _, _)
ConvertSegments(segs, b, p, keySizeLeft) ==
    IF segs = << >> \/ ~(keySizeLeft > 0)
    THEN [bResult |-> TRUE, b |-> b, keySizeLeft |-> keySizeLeft]
    ELSE LET seg == Head(segs)
             c == convertKeySegment(b, p, seg.type)
             left == keySizeLeft - seg.size
             keySizeLeft1 == IF left < 0 /\ seg.type = tBYTE THEN 0 ELSE left
         IN IF ~c.bResult THEN [bResult |-> FALSE, b |-> c.b, keySizeLeft |-> keySizeLeft1]
            ELSE ConvertSegments(Tail(segs), c.b, p + seg.size, keySizeLeft1)

\* OSNDXFIO::convertKey( in_rKey ): [in_rKey, m_error].
convertKey(h, in_rKey) ==
    LET pKeyIndex == h.apKeyIndex[in_rKey.id + 1]
        sizeOk == in_rKey.size <= pKeyIndex.keySize
        c == ConvertSegments(h.apKeyDescriptor[in_rKey.id + 1], in_rKey.pValue, 0,
                             in_rKey.size)
        bResult == sizeOk /\ c.bResult /\ c.keySizeLeft = 0
    IN [in_rKey |-> [in_rKey EXCEPT !.conversionDone = bResult,
                                    !.pValue = IF sizeOk THEN c.b ELSE in_rKey.pValue],
        m_error |-> IF bResult THEN "NO_ERROR" ELSE "INVALID_KEY"]

\* OSNDXFIO::getSearchCount( in_rKey )
getSearchCount(in_rKey) == in_rKey.count

\* A comparison over the whole key of the slot, whatever the size of the
\* search key.
CompareAtKeySize(h, in_rKey, searchIndex) ==
    LET ki == h.apKeyIndex[in_rKey.id + 1]
    IN memcmp(in_rKey.pValue \o Fill(ki.keySize - in_rKey.size, 0),
              SlotKey(h.apKey, ki.apRecord[searchIndex + 1], ki), ki.keySize)

\* ::memcmp of the search key with the key of the slot at position
\* searchIndex of the key array.
CompareAt(h, in_rKey, searchIndex) ==
    LET ki == h.apKeyIndex[in_rKey.id + 1]
    IN memcmp(in_rKey.pValue, SlotKey(h.apKey, ki.apRecord[searchIndex + 1], ki),
              in_rKey.size)

\* The do-while of the binary search of existRecord: [result, searchIndex].
RECURSIVE BinarySearch(_, _, _, _)
BinarySearch(h, in_rKey, leftIndex, rightIndex) ==
    LET searchIndex == (leftIndex + rightIndex) \div 2
        result == CompareAt(h, in_rKey, searchIndex)
        rightIndex1 == IF result < 0 THEN searchIndex - 1 ELSE rightIndex
        leftIndex1 == IF result > 0 THEN searchIndex + 1 ELSE leftIndex
    IN IF result # 0 /\ leftIndex1 <= rightIndex1
       THEN BinarySearch(h, in_rKey, leftIndex1, rightIndex1)
       ELSE [result |-> result, searchIndex |-> searchIndex]

\* The binary search between leftIndex and rightIndex compares the key at a
\* position of the key array that initKeyIndexArray has not initialised:
\* what it reads there is not defined.
RECURSIVE SearchOverruns(_, _, _, _)
SearchOverruns(h, in_rKey, leftIndex, rightIndex) ==
    LET searchIndex == (leftIndex + rightIndex) \div 2
    IN IF searchIndex >= Len(h.apKeyIndex[in_rKey.id + 1].apRecord) THEN TRUE
       ELSE LET result == CompareAt(h, in_rKey, searchIndex)
                rightIndex1 == IF result < 0 THEN searchIndex - 1 ELSE rightIndex
                leftIndex1 == IF result > 0 THEN searchIndex + 1 ELSE leftIndex
            IN result # 0 /\ leftIndex1 <= rightIndex1
                 /\ SearchOverruns(h, in_rKey, leftIndex1, rightIndex1)

\* The loops of existRecord that find the matching keys before and beyond
\* searchIndex.
RECURSIVE MatchesBefore(_, _, _)
MatchesBefore(h, in_rKey, leftIndex) ==
    IF leftIndex > 0 /\ CompareAt(h, in_rKey, leftIndex - 1) = 0
    THEN MatchesBefore(h, in_rKey, leftIndex - 1) ELSE leftIndex

RECURSIVE MatchesBeyond(_, _, _, _)
MatchesBeyond(h, in_rKey, rightIndex, maxIndex) ==
    IF rightIndex < maxIndex /\ CompareAt(h, in_rKey, rightIndex + 1) = 0
    THEN MatchesBeyond(h, in_rKey, rightIndex + 1, maxIndex) ELSE rightIndex

\* The cursor of a key array set to position, selectionStart, selectionEnd.
SetSelection(h, in_keyId, position, selectionEnd) ==
    [h EXCEPT !.apKeyIndex[in_keyId + 1].position = position,
              !.apKeyIndex[in_keyId + 1].selectionStart = position,
              !.apKeyIndex[in_keyId + 1].selectionEnd = selectionEnd]

\* existRecord: the matching keys at leftIndex .. rightIndex of the key array.
existRecordRange(h0, k1, merr, leftIndex, rightIndex) ==
    [bResult |-> TRUE, h |-> SetSelection(h0, k1.id, leftIndex, rightIndex),
     m_error |-> merr,
     in_rKey |-> [k1 EXCEPT !.index = leftIndex, !.count = rightIndex - leftIndex + 1],
     out_rIndex |-> h0.apKeyIndex[k1.id + 1].apRecord[leftIndex + 1], pc |-> "idle"]

\* existRecord: the outcome bs of the binary search.
existRecordSearched(h0, k1, merr, maxIndex, bs) ==
    IF bs.result = 0
    THEN existRecordRange(h0, k1, merr, MatchesBefore(h0, k1, bs.searchIndex),
                          MatchesBeyond(h0, k1, bs.searchIndex, maxIndex))
    ELSE [bResult |-> FALSE, h |-> h0, m_error |-> "ENTRY_NOT_FOUND",
          in_rKey |-> [k1 EXCEPT !.index = IF bs.result < 0 THEN bs.searchIndex
                                           ELSE bs.searchIndex + 1],
          out_rIndex |-> INVALID_VALUE, pc |-> "idle"]

\* existRecord: the search of the converted key k1 in the sorted key array of
\* h0, whose cursor has been reset.
existRecordSearch(h0, k1, merr) ==
    IF h0.hdr.nrOfRecords = 1
    THEN IF memcmp(k1.pValue, SlotKey(h0.apKey, 0, h0.apKeyIndex[k1.id + 1]), k1.size) = 0
         THEN [bResult |-> TRUE, h |-> SetSelection(h0, k1.id, 0, 0), m_error |-> merr,
               in_rKey |-> [k1 EXCEPT !.index = 0, !.count = 1], out_rIndex |-> 0,
               pc |-> "idle"]
         ELSE [bResult |-> FALSE, h |-> h0, m_error |-> merr, in_rKey |-> k1,
               out_rIndex |-> INVALID_VALUE, pc |-> "idle"]
    ELSE IF SearchOverruns(h0, k1,
                           IF k1.index # INVALID_VALUE THEN k1.index ELSE 0,
                           IF k1.index # INVALID_VALUE THEN k1.index + k1.count
                           ELSE h0.hdr.nrOfRecords - 1)
    THEN [bResult |-> FALSE, h |-> h0, m_error |-> merr, in_rKey |-> k1,
          out_rIndex |-> INVALID_VALUE, pc |-> "undefined"]
    ELSE existRecordSearched(h0, k1, merr, h0.hdr.nrOfRecords - 1,
             BinarySearch(h0, k1,
                          IF k1.index # INVALID_VALUE THEN k1.index ELSE 0,
                          IF k1.index # INVALID_VALUE THEN k1.index + k1.count
                          ELSE h0.hdr.nrOfRecords - 1))

\* existRecord: the key array of the key is sorted when it is not.
existRecordSorted(h, k1, merr) ==
    existRecordSearch(
        SetSelection(IF h.apKeyIndex[k1.id + 1].bSorted THEN h
                     ELSE [h EXCEPT !.apKeyIndex[k1.id + 1] = shellSort(h, k1.id)],
                     k1.id, INVALID_VALUE, INVALID_VALUE),
        k1, merr)

\* existRecord: the key conv that convertKey has converted, or the caller's.
existRecordConverted(h, out0, conv) ==
    IF ~conv.in_rKey.conversionDone
    THEN [bResult |-> FALSE, h |-> h, m_error |-> conv.m_error,
          in_rKey |-> conv.in_rKey, out_rIndex |-> out0, pc |-> "idle"]
    ELSE existRecordSorted(h, conv.in_rKey, conv.m_error)

\* OSNDXFIO::existRecord( in_rKey, out_rIndex ):
\* [bResult, h, m_error, in_rKey, out_rIndex, pc]; merr is m_error at the
\* call, pc is "undefined" when the search has left the key array.
existRecord(h, merr, key0, out0) ==
    IF ~(h.hdr.nrOfRecords > 0)
    THEN [bResult |-> FALSE, h |-> h, m_error |-> merr, in_rKey |-> key0,
          out_rIndex |-> out0, pc |-> "idle"]
    ELSE existRecordConverted(h, out0,
             IF key0.conversionDone THEN [in_rKey |-> key0, m_error |-> merr]
             ELSE convertKey(h, key0))

-----------------------------------------------------------------------------
(* The state machine: one handle (an OSNDXFIO object) and one file.        *)
(* disk is the file, m_handle the handle's store (<< >> is NULL), m_error   *)
(* its last error, key the sKEY object of the last search, ret what the     *)
(* last call returned.  pc is "idle" between calls.  hist records the calls *)
(* made so far; no action reads it except to bound the number of calls.     *)

\* The schema of the stores: key 0 is two bytes at offset 0, key 1 a signed
\* 16-bit number at offset 1.
KeyDescriptors ==
    << << [offset |-> 0, type |-> tBYTE, size |-> 2] >>,
       << [offset |-> 1, type |-> tS16, size |-> 2] >> >>

\* The records the callers create: two with keys, one too short for them.
Records == { << 1, 0, 0 >>, << 1, 255, 255, 7 >>, << 1 >> }

\* The buffer sizes the callers read records into.
AllocatedSizes == { 3, 8 }

\* A buffer large enough for every record.
LargeBuffer == CHOOSE n \in AllocatedSizes : \A m \in AllocatedSizes : m <= n

sRECORD(pData) == [pData |-> pData, dataOffset |-> 0, dataSize |-> Len(pData)]

Ret(op, ok, index, pData, dataSize) ==
    [op |-> op, ok |-> ok, index |-> index, pData |-> pData, dataSize |-> dataSize,
     allocatedSize |-> 0, in_databaseName |-> NullName]

NoCursor(hst) == [hst EXCEPT !.iter = << >>, !.iterValid = FALSE, !.iterEnd = FALSE]

\* hist when a store has been opened: no record is of this session.
Opened(hst) ==
    [NoCursor(hst) EXCEPT !.dirty = FALSE,
                          !.recs = [i \in 1..Len(hst.recs) |->
                                       [hst.recs[i] EXCEPT !.current = FALSE]]]

\* The OSNDXFIO objects of the process.  The sHANDLE of object a lies at
\* address a, also after it was deleted and allocated again; 0 is NULL.
Handles == 1..MaxHandles

\* The object whose store m_handle is.
ThisObject == 1

\* The registry of open stores: pDatabaseListEntry (head), pNext and
\* pPrevious of the sHANDLE at each address, which keep their values when
\* the sHANDLE is deleted, and the addresses that hold an sHANDLE (open).
\* dangling tells that open() has followed a pointer to a deleted sHANDLE.
NoRegistry ==
    [head |-> 0, pNext |-> [a \in Handles |-> 0], pPrevious |-> [a \in Handles |-> 0],
     open |-> {}, dangling |-> FALSE]

\* The loop of open() that finds the last sHANDLE of the list from address a
\* on; 0 when it has not found one after n steps.
RECURSIVE LastHandle(_, _, _)
LastHandle(reg, a, n) ==
    IF n = 0 THEN 0
    ELSE IF reg.pNext[a] = 0 THEN a
    ELSE LastHandle(reg, reg.pNext[a], n - 1)

\* The addresses the loop of open() reads from address a on.
RECURSIVE HandlesRead(_, _, _)
HandlesRead(reg, a, n) ==
    IF n = 0 \/ a = 0 THEN {}
    ELSE {a} \cup HandlesRead(reg, reg.pNext[a], n - 1)

\* new sHANDLE at address a: sHANDLE::sHANDLE().
newHandle(reg, a) ==
    [reg EXCEPT !.pNext[a] = 0, !.pPrevious[a] = 0, !.open = reg.open \cup {a}]

\* open(): the sHANDLE at address a enters the registry behind the last one.
registerHandle(reg, a) ==
    IF reg.head = 0
    THEN [reg EXCEPT !.head = a, !.pPrevious[a] = 0, !.pNext[a] = 0]
    ELSE LET pHandle == LastHandle(reg, reg.head, MaxHandles + 1)
         IN [reg EXCEPT !.pPrevious[a] = pHandle,
                        !.pNext = [b \in Handles |->
                                      IF b = a THEN 0
                                      ELSE IF b = pHandle THEN a ELSE reg.pNext[b]],
                        !.dangling = reg.dangling
                                       \/ ~(HandlesRead(reg, reg.head, MaxHandles + 1)
                                              \subseteq reg.open)]

\* close(): the neighbours of the sHANDLE at address a are linked to each
\* other and the sHANDLE is deleted.
unregisterHandle(reg, a) ==
    LET previous == reg.pPrevious[a]
        next == reg.pNext[a]
    IN [reg EXCEPT
          !.pNext = [b \in Handles |->
                        IF previous # 0 /\ b = previous THEN next ELSE reg.pNext[b]],
          !.pPrevious = [b \in Handles |->
                            IF next # 0 /\ b = next THEN previous ELSE reg.pPrevious[b]],
          !.open = reg.open \ {a}]

\* The registry after open() of the object at address a: wasOpen tells
\* whether the object held an open store, allocated whether the call got as
\* far as new sHANDLE, statusOk what it returned.  A call that fails ends
\* with close().
registryAfterOpen(reg, a, wasOpen, allocated, statusOk) ==
    IF statusOk THEN registerHandle(newHandle(reg, a), a)
    ELSE IF wasOpen THEN unregisterHandle(reg, a)
    ELSE IF allocated THEN unregisterHandle(newHandle(reg, a), a)
    ELSE reg

\* The registry after close() of the object at address a.
registryAfterClose(reg, a, wasOpen) ==
    IF wasOpen THEN unregisterHandle(reg, a) ELSE reg

\* The arguments of a call of create().
sCALL(in_databaseName, in_nrOfKeys, in_keyDescriptor, in_reservedIndexRecords) ==
    [in_databaseName |-> in_databaseName, in_nrOfKeys |-> in_nrOfKeys,
     in_keyDescriptor |-> in_keyDescriptor,
     in_reservedIndexRecords |-> in_reservedIndexRecords]

\* The state after the construction of the OSNDXFIO object, no file being
\* there; call is what the caller is going to pass to create().
Constructed(call) ==
    /\ disk = NoFile
    /\ rebuilt = NoFile
    /\ m_handle = << >>
    /\ m_error = "NO_ERROR"
    /\ key = sKEY(65535, 0, << >>)
    /\ ret = Ret("none", TRUE, INVALID_VALUE, << >>, 0)
    /\ hist = [opens |-> 0, recs |-> << >>, nDeleteOk |-> 0, dirty |-> FALSE,
               iter |-> << >>, iterValid |-> FALSE, iterEnd |-> FALSE,
               call |-> call, conv |-> << >>, faults |-> 0,
               writes |-> NoFault, registry |-> NoRegistry]
    /\ pc = "idle"

Init == Constructed(sCALL(NullName, 0, << >>, 0))

\* The values the indeterminate words of the file may have for a call of
\* createRecord: any, when the call searches the deleted records.
Selections ==
    IF m_handle # << >> /\ m_handle[1].hdr.lastDeletedIndex >= 0
    THEN [disk.indeterminate -> Garbage32]
    ELSE {[o \in disk.indeterminate |-> Indeterminate]}

\* A call of create().
DoCreate(in_databaseName, in_nrOfKeys, in_keyDescriptor, in_reservedIndexRecords) ==
    /\ pc = "idle"
    /\ \E c \in {create(disk, m_handle, m_error, in_databaseName, in_nrOfKeys,
                        in_keyDescriptor, in_reservedIndexRecords)} :
          /\ disk' = c.disk
          /\ m_handle' = c.m_handle
          /\ m_error' = c.m_error
          /\ ret' = [Ret("create", c.statusOk, INVALID_VALUE, << >>, 0)
                        EXCEPT !.in_databaseName = in_databaseName]
          /\ hist' = [IF c.statusOk THEN Opened(hist) ELSE hist EXCEPT
                         !.call = sCALL(in_databaseName, in_nrOfKeys, in_keyDescriptor,
                                        in_reservedIndexRecords),
                         !.registry = IF c.statusOk
                                      THEN registryAfterOpen(hist.registry, ThisObject,
                                                             FALSE, TRUE, TRUE)
                                      ELSE hist.registry]
    /\ UNCHANGED << rebuilt, key, pc >>

\* A call of open().
DoOpen(in_databaseName, in_readOnly, in_allocatedIndexKeys, maxOpens) ==
    /\ pc = "idle"
    /\ hist.opens < maxOpens
    /\ \E o \in {open(disk, m_handle, in_databaseName, in_readOnly,
                      in_allocatedIndexKeys)} :
          /\ m_handle' = o.m_handle
          /\ m_error' = o.m_error
          /\ ret' = [Ret("open", o.statusOk, INVALID_VALUE, << >>, 0)
                        EXCEPT !.in_databaseName = in_databaseName]
          /\ hist' = LET hst == NoCursor([hist EXCEPT
                                   !.opens = hist.opens + 1,
                                   !.registry = registryAfterOpen(hist.registry,
                                       ThisObject, m_handle # << >>,
                                       isDatabaseNameValid(in_databaseName),
                                       o.statusOk)])
                     IN IF o.statusOk THEN Opened(hst) ELSE hst
    /\ UNCHANGED << disk, rebuilt, key, pc >>

\* A call of open() with the name of a file that is not there.
DoOpenMissing(in_databaseName, in_readOnly, maxOpens) ==
    /\ pc = "idle"
    /\ hist.opens < maxOpens
    /\ \E o \in {open(NoFile, m_handle, in_databaseName, in_readOnly,
                      DEFAULT_ALLOCATED_INDEX_KEYS)} :
          /\ m_handle' = o.m_handle
          /\ m_error' = o.m_error
          /\ ret' = [Ret("open", o.statusOk, INVALID_VALUE, << >>, 0)
                        EXCEPT !.in_databaseName = in_databaseName]
          /\ hist' = NoCursor([hist EXCEPT
                                  !.opens = hist.opens + 1,
                                  !.registry = registryAfterOpen(hist.registry,
                                      ThisObject, m_handle # << >>,
                                      isDatabaseNameValid(in_databaseName),
                                      o.statusOk)])
    /\ UNCHANGED << disk, rebuilt, key, pc >>

\* A call of close().
Close ==
    LET c == close(m_handle, m_error, TRUE)
    IN /\ pc = "idle"
       /\ m_handle' = c.m_handle
       /\ m_error' = c.m_error
       /\ ret' = Ret("close", c.result, INVALID_VALUE, << >>, 0)
       /\ hist' = NoCursor([hist EXCEPT
                              !.registry = registryAfterClose(hist.registry, ThisObject,
                                                              m_handle # << >>)])
       /\ UNCHANGED << disk, rebuilt, key, pc >>

\* A call of open() of another OSNDXFIO object, at address a, for the file of
\* the store: it returns what open() returns for that file.
DoOpenOther(a, in_readOnly) ==
    /\ pc = "idle"
    /\ \E o \in {open(disk, IF a \in hist.registry.open THEN << NewHeader >> ELSE << >>,
                      DatabaseName, in_readOnly, DEFAULT_ALLOCATED_INDEX_KEYS)} :
          hist' = [hist EXCEPT !.registry = registryAfterOpen(hist.registry, a,
                                                a \in hist.registry.open, TRUE,
                                                o.statusOk)]
    /\ UNCHANGED << disk, rebuilt, m_handle, m_error, key, ret, pc >>

\* A call of close() of another OSNDXFIO object, at address a, or its
\* destruction.
DoCloseOther(a) ==
    /\ pc = "idle"
    /\ a \in hist.registry.open
    /\ hist' = [hist EXCEPT !.registry = registryAfterClose(hist.registry, a, TRUE)]
    /\ UNCHANGED << disk, rebuilt, m_handle, m_error, key, ret, pc >>

\* A call of createRecord() on the open store.  Only the search for a
\* deleted record uses words of the file that are indeterminate.
DoCreateRecordWrites(pData, sel, maxCreates, writes) ==
    /\ pc = "idle"
    /\ m_handle # << >>
    /\ Len(hist.recs) < maxCreates
    /\ \E resolved \in {\E o \in DOMAIN sel : sel[o] # Indeterminate} :
       \E c \in {createRecord([m_handle[1] EXCEPT !.writes = writes],
                              IF resolved THEN Resolve(disk.bytes, sel) ELSE disk.bytes,
                              sRECORD(pData))} :
       \E indeterminate \in {disk.indeterminate \cup c.indeterminate} :
          /\ pc' = c.pc
          /\ disk' = [disk EXCEPT
                        !.bytes = IF resolved
                                  THEN Resolve(c.bytes,
                                               [o \in indeterminate |-> Indeterminate])
                                  ELSE c.bytes,
                        !.indeterminate = indeterminate]
          /\ m_handle' = << [c.h EXCEPT !.writes = NoFault] >>
          /\ m_error' = c.m_error
          /\ ret' = Ret("createRecord", c.statusOk, c.out_rIndex, pData, Len(pData))
          /\ hist' = [hist EXCEPT
                        !.dirty = TRUE,
                        !.faults = IF writes = NoFault THEN hist.faults
                                   ELSE hist.faults + 1,
                        !.writes = writes,
                        !.recs = IF c.statusOk
                                 THEN Append(hist.recs,
                                             [pData |-> pData, slot |-> c.out_rIndex,
                                              current |-> TRUE, deleted |-> FALSE])
                                 ELSE hist.recs]
    /\ UNCHANGED << rebuilt, key >>

\* A call of createRecord() during which no ::write returns ERROR.
DoCreateRecord(pData, sel, maxCreates) ==
    DoCreateRecordWrites(pData, sel, maxCreates, NoFault)

\* A call of getRecord( in_index, .. ) on the open store.
DoGetRecord(in_index, allocatedSize) ==
    /\ pc = "idle"
    /\ m_handle # << >>
    /\ \E g \in IF in_index < Len(m_handle[1].apKey) THEN {0} ELSE Garbage32 :
       \E r \in {getRecord(m_handle[1], disk.bytes, in_index, allocatedSize, g)} :
          /\ m_error' = r.m_error
          /\ ret' = [Ret("getRecord", r.statusOk, in_index, r.pData, r.dataSize)
                        EXCEPT !.allocatedSize = allocatedSize]
    /\ UNCHANGED << disk, rebuilt, m_handle, key, hist, pc >>

\* A call of deleteRecord() on the open store.
DoDeleteRecord(in_index, maxDeletes) ==
    /\ pc = "idle"
    /\ m_handle # << >>
    /\ hist.nDeleteOk < maxDeletes
    /\ \E g \in IF in_index < Len(m_handle[1].apKey) THEN {0} ELSE Garbage32 :
          LET d == deleteRecord(m_handle[1], in_index, g)
          IN /\ pc' = d.pc
             /\ m_handle' = << d.h >>
             /\ m_error' = d.m_error
             /\ ret' = Ret("deleteRecord", d.statusOk, in_index, << >>, 0)
             /\ hist' = [hist EXCEPT
                           !.dirty = TRUE,
                           !.nDeleteOk = IF d.statusOk THEN hist.nDeleteOk + 1
                                         ELSE hist.nDeleteOk,
                           !.recs = [i \in 1..Len(hist.recs) |->
                                        IF d.statusOk /\ hist.recs[i].slot = in_index
                                        THEN [hist.recs[i] EXCEPT !.deleted = TRUE]
                                        ELSE hist.recs[i]]]
    /\ UNCHANGED << disk, rebuilt, key >>

\* A call of updateRecord() on the open store.
DoUpdateRecord(in_index, pData) ==
    /\ pc = "idle"
    /\ m_handle # << >>
    /\ \E g \in IF in_index < Len(m_handle[1].apKey) THEN {0} ELSE Garbage32 :
       \E u \in {updateRecord(m_handle[1], disk.bytes, in_index, sRECORD(pData), g)} :
          /\ m_error' = u.m_error
          /\ ret' = Ret("updateRecord", u.statusOk, in_index, pData, Len(pData))
    /\ UNCHANGED << disk, rebuilt, m_handle, key, hist, pc >>

\* A call of rebuild() on the open store.
DoRebuild(in_databaseName, in_nrOfKeys, in_keyDescriptor, in_maxDataSize, u, moved) ==
    /\ pc = "idle"
    /\ m_handle # << >>
    /\ \E r \in {rebuild(m_handle[1], disk.bytes, m_error, FileNamed(in_databaseName),
                         in_databaseName, in_nrOfKeys, in_keyDescriptor,
                         in_maxDataSize, u, moved)} :
          /\ pc' = r.pc
          /\ disk' = IF in_databaseName = DatabaseName THEN r.file ELSE disk
          /\ rebuilt' = IF in_databaseName = RebuildName THEN r.file ELSE rebuilt
          /\ m_error' = r.m_error
          /\ ret' = [Ret("rebuild", r.statusOk, INVALID_VALUE, << >>, 0)
                        EXCEPT !.in_databaseName = in_databaseName]
    /\ UNCHANGED << m_handle, key, hist >>

\* The last two of the conversions made.
LastTwo(conv) == IF Len(conv) > 2 THEN Tail(conv) ELSE conv

\* A call of convertKey() with a newly constructed sKEY.
DoConvertKey(in_id, in_size, in_pValue) ==
    /\ pc = "idle"
    /\ m_handle # << >>
    /\ \E c \in {convertKey(m_handle[1], sKEY(in_id, in_size, in_pValue))} :
          /\ m_error' = c.m_error
          /\ key' = c.in_rKey
          /\ ret' = Ret("convertKey", c.in_rKey.conversionDone, INVALID_VALUE,
                        in_pValue, in_size)
          /\ hist' = [hist EXCEPT
                        !.conv = LastTwo(Append(@, [in_pValue |-> in_pValue,
                                                    in_rKey |-> c.in_rKey]))]
    /\ UNCHANGED << disk, rebuilt, m_handle, pc >>

\* A call of existRecord() with a newly constructed sKEY.
DoExistRecord(in_id, in_size, in_pValue) ==
    /\ pc = "idle"
    /\ m_handle # << >>
    /\ \E e \in {existRecord(m_handle[1], m_error, sKEY(in_id, in_size, in_pValue),
                             INVALID_VALUE)} :
          /\ m_handle' = << e.h >>
          /\ m_error' = e.m_error
          /\ key' = e.in_rKey
          /\ ret' = Ret("existRecord", e.bResult, e.out_rIndex, in_pValue, in_size)
          /\ hist' = [hist EXCEPT !.iter = IF e.bResult THEN << e.out_rIndex >> ELSE << >>,
                                  !.iterValid = e.bResult,
                                  !.iterEnd = FALSE]
          /\ pc' = e.pc
    /\ UNCHANGED << disk, rebuilt >>

\* A call of convertKey() with the sKEY of the last call, to which the caller
\* has given a new size and value.
DoConvertKeyAgain(in_size, in_pValue) ==
    /\ pc = "idle"
    /\ m_handle # << >>
    /\ key.id < Len(m_handle[1].apKeyDescriptor)
    /\ \E c \in {convertKey(m_handle[1],
                            [key EXCEPT !.size = in_size, !.pValue = in_pValue])} :
          /\ m_error' = c.m_error
          /\ key' = c.in_rKey
          /\ ret' = Ret("convertKey", c.in_rKey.conversionDone, INVALID_VALUE,
                        in_pValue, in_size)
    /\ UNCHANGED << disk, rebuilt, m_handle, hist, pc >>

\* A call of existRecord() with the sKEY of the last call, which was a
\* search or a conversion; ret.pData is the value the caller gave the key.
DoExistRecordAgain ==
    /\ pc = "idle"
    /\ m_handle # << >>
    /\ key.id < Len(m_handle[1].apKeyDescriptor)
    /\ ret.op \in {"existRecord", "convertKey"}
    /\ \E e \in {existRecord(m_handle[1], m_error, key, INVALID_VALUE)} :
          /\ m_handle' = << e.h >>
          /\ m_error' = e.m_error
          /\ key' = e.in_rKey
          /\ ret' = Ret("existRecord", e.bResult, e.out_rIndex, ret.pData, ret.dataSize)
          /\ hist' = [hist EXCEPT !.iter = IF e.bResult THEN << e.out_rIndex >> ELSE << >>,
                                  !.iterValid = e.bResult,
                                  !.iterEnd = FALSE]
          /\ pc' = e.pc
    /\ UNCHANGED << disk, rebuilt >>

\* A call of getNextRecord() on the key of the last search.
DoGetNextRecord(in_keyId, allocatedSize) ==
    /\ pc = "idle"
    /\ m_handle # << >>
    /\ \E n \in {getNextRecord(m_handle[1], disk.bytes, in_keyId, allocatedSize, 0)} :
          /\ m_handle' = << n.h >>
          /\ m_error' = n.m_error
          /\ ret' = Ret("getNextRecord", n.statusOk, n.out_rIndex, n.pData, n.dataSize)
          /\ hist' = IF ~(hist.iterValid /\ in_keyId = key.id /\ ~hist.iterEnd) THEN hist
                     ELSE IF n.out_rIndex = INVALID_VALUE
                     THEN [hist EXCEPT !.iterEnd = TRUE]
                     ELSE [hist EXCEPT !.iter = Append(hist.iter, n.out_rIndex)]
    /\ UNCHANGED << disk, rebuilt, key, pc >>

------------------------------------------------------------------------

-----------------------------------------------------------------------------
(* Spec: the life of a store and of its records: create, open, close,      *)
(* createRecord, getRecord and deleteRecord.  None of them reads a key      *)
(* array or a cursor, which the searches of SpecSearch exercise.            *)

Create ==
    DoCreate(DatabaseName, Len(KeyDescriptors), KeyDescriptors,
             MINIMUM_RESERVED_INDEX_RECORDS)

Open ==
    \E in_readOnly \in BOOLEAN :
        DoOpen(DatabaseName, in_readOnly, DEFAULT_ALLOCATED_INDEX_KEYS, MaxOpens)

CreateRecord ==
    \E pData \in Records, sel \in Selections : DoCreateRecord(pData, sel, MaxCreates)

GetRecord ==
    \E in_index \in 0..MaxCreates, allocatedSize \in AllocatedSizes :
        DoGetRecord(in_index, allocatedSize)

DeleteRecord ==
    \E in_index \in 0..MaxCreates : DoDeleteRecord(in_index, MaxDeletes)

UpdateRecord ==
    \E in_index \in 0..MaxCreates, pData \in Records : DoUpdateRecord(in_index, pData)

Next ==
    \/ Create
    \/ Open
    \/ Close
    \/ CreateRecord
    \/ GetRecord
    \/ DeleteRecord
    \/ UpdateRecord

Spec == Init /\ [][Next]_vars

-----------------------------------------------------------------------------
(* SpecSearch: the searches over the records of a store, in the session    *)
(* that created them and after the store has been opened again.             *)

\* The records the callers create: the same first byte, key 0 of the first
\* below key 0 of the second, key 1 of the first (0) above key 1 of the
\* second (-1).
SearchRecords == { << 1, 0, 0 >>, << 1, 255, 255, 7 >> }

\* The keys the callers search, as << id, size, value >>: full keys of the
\* records, the prefix of key 0 they share and a key that no record has.
SearchKeys ==
    { << 0, 2, << 1, 0 >> >>, << 0, 2, << 1, 255 >> >>, << 0, 1, << 1, 0 >> >>,
      << 0, 2, << 2, 2 >> >>, << 1, 2, << 255, 255 >> >>, << 1, 2, << 0, 0 >> >> }

SearchOpen ==
    DoOpen(DatabaseName, FALSE, DEFAULT_ALLOCATED_INDEX_KEYS, MaxOpens)

SearchCreateRecord ==
    \E pData \in SearchRecords, sel \in Selections :
        DoCreateRecord(pData, sel, MaxSearchCreates)

ExistRecord ==
    \E k \in SearchKeys : DoExistRecord(k[1], k[2], k[3])

GetNextRecord ==
    \E in_keyId \in 0..(Len(KeyDescriptors) - 1) : DoGetNextRecord(in_keyId, 8)

NextSearch ==
    \/ Create
    \/ SearchOpen
    \/ Close
    \/ SearchCreateRecord
    \/ ExistRecord
    \/ GetNextRecord

SpecSearch == Init /\ [][NextSearch]_vars

-----------------------------------------------------------------------------
(* SpecChain: a store that outgrows its first block of reserved index      *)
(* records, opened with the default number of preallocated index keys or    *)
(* with none.                                                               *)

\* The record a caller creates in a store of n records.
ChainRecord(n) == << (7 * n) % 5, (3 * n) % 4, IF n % 3 = 0 THEN 255 ELSE 0 >>

ChainOpen ==
    \E in_allocatedIndexKeys \in {0, DEFAULT_ALLOCATED_INDEX_KEYS} :
        DoOpen(DatabaseName, FALSE, in_allocatedIndexKeys, MaxChainOpens)

ChainCreateRecord ==
    /\ m_handle # << >>
    /\ \E sel \in Selections :
          DoCreateRecord(ChainRecord(getNrOfRecords(m_handle[1])), sel, MaxChainCreates)

ChainGetRecord ==
    \E in_index \in 0..MaxChainCreates : DoGetRecord(in_index, 8)

NextChain ==
    \/ Create
    \/ ChainOpen
    \/ Close
    \/ ChainCreateRecord
    \/ ChainGetRecord

SpecChain == Init /\ [][NextChain]_vars

-----------------------------------------------------------------------------
(* SpecSort: the searches over a store of more than 13 records, which       *)
(* shellSort sorts with diminishing gaps and existRecord searches in        *)
(* several steps, in the session that created the records and after the     *)
(* store has been opened again.                                             *)

\* The keys the callers search, as << id, size, value >>: first bytes of key
\* 0 that several records of ChainRecord share, a full key 0, and values of
\* key 1 that several records carry.
SortKeys ==
    { << 0, 1, << 0 >> >>, << 0, 1, << 4 >> >>, << 0, 2, << 1, 3 >> >>,
      << 1, 2, << 2, 0 >> >>, << 1, 2, << 0, 255 >> >> }

SortOpen ==
    DoOpen(DatabaseName, FALSE, DEFAULT_ALLOCATED_INDEX_KEYS, MaxSortOpens)

SortCreateRecord ==
    /\ m_handle # << >>
    /\ \E sel \in Selections :
          DoCreateRecord(ChainRecord(getNrOfRecords(m_handle[1])), sel, MaxSortCreates)

\* The callers search the store when it has grown beyond a straight
\* insertion sort.
SortExistRecord ==
    /\ m_handle # << >>
    /\ getNrOfRecords(m_handle[1]) > StraightInsertionMax
    /\ \E k \in SortKeys : DoExistRecord(k[1], k[2], k[3])

\* The callers iterate the key they searched.
SortGetNextRecord ==
    /\ key.id < Len(KeyDescriptors)
    /\ DoGetNextRecord(key.id, LargeBuffer)

NextSort ==
    \/ Create
    \/ SortOpen
    \/ Close
    \/ SortCreateRecord
    \/ SortExistRecord
    \/ SortGetNextRecord

SpecSort == Init /\ [][NextSort]_vars

-----------------------------------------------------------------------------
(* SpecSetup: create and open with arguments they reject and with those     *)
(* they accept, on a handle with and without an open store, and close.      *)

\* The key descriptors of test1 that create() rejects: the second segment
\* of key 0 starts in the last byte of the first.
OverlapDescriptors ==
    << << [offset |-> 0, type |-> tBYTE, size |-> 2],
          [offset |-> 1, type |-> tBYTE, size |-> 2] >>,
       << [offset |-> 1, type |-> tS16, size |-> 2] >> >>

\* The numbers of reserved index records the callers pass: the limits and
\* their neighbours.
ReservedIndexRecords ==
    { MINIMUM_RESERVED_INDEX_RECORDS - 1, MINIMUM_RESERVED_INDEX_RECORDS,
      MAXIMUM_RESERVED_INDEX_RECORDS, MAXIMUM_RESERVED_INDEX_RECORDS + 1 }

\* create() with any of the arguments.  The largest block of reserved index
\* records is asked for when the file is there, so that no file of that size
\* is written.
SetupCreate ==
    \E in_databaseName \in {DatabaseName, NullName},
       in_keyDescriptor \in {KeyDescriptors, OverlapDescriptors},
       in_reservedIndexRecords \in ReservedIndexRecords :
       \E in_nrOfKeys \in {0, Len(in_keyDescriptor)} :
          /\ in_reservedIndexRecords = MAXIMUM_RESERVED_INDEX_RECORDS => disk.exists
          /\ DoCreate(in_databaseName, in_nrOfKeys, in_keyDescriptor,
                      in_reservedIndexRecords)

SetupOpen ==
    \E in_readOnly \in BOOLEAN :
        DoOpen(DatabaseName, in_readOnly, DEFAULT_ALLOCATED_INDEX_KEYS, MaxSetupOpens)

SetupOpenMissing ==
    \E in_readOnly \in BOOLEAN : DoOpenMissing(MissingName, in_readOnly, MaxSetupOpens)

NextSetup ==
    \/ SetupCreate
    \/ SetupOpen
    \/ SetupOpenMissing
    \/ Close

SpecSetup == Init /\ [][NextSetup]_vars

-----------------------------------------------------------------------------
(* SpecValid: the key descriptors the caller holds are drawn from           *)
(* DescriptorSets; create() validates them, and open() validates those it   *)
(* reads from the file.                                                     *)

\* The types and sizes of the segments drawn: each type with its size and
\* with another, and two values that are no type.
TypeSizes ==
    { << tBYTE, 0 >>, << tBYTE, 1 >>, << tBYTE, 2 >>, << tBYTE, 4 >>,
      << tS16, 2 >>, << tS16, 4 >>, << tU16, 2 >>, << tU16, 1 >>,
      << tS32, 4 >>, << tS32, 2 >>, << tU32, 4 >>, << tU32, 3 >>,
      << 0, 2 >>, << tU32 + 1, 4 >> }

Segments ==
    { [offset |-> o, type |-> ts[1], size |-> ts[2]] : o \in 0..MaxOffset, ts \in TypeSizes }

\* Segments of bytes, of which descriptors of three segments are made.
ByteSegments == { seg \in Segments : seg.type = tBYTE /\ seg.size \in {1, 2} }

\* One descriptor of one, two or three segments, and two descriptors of one
\* segment each, whose segments may overlap.
DescriptorSets ==
    { << << a >> >> : a \in Segments }
      \cup { << << a, c >> >> : a \in Segments, c \in Segments }
      \cup { << << a, c, e >> >> : a \in ByteSegments, c \in ByteSegments, e \in ByteSegments }
      \cup { << << a >>, << c >> >> : a \in ByteSegments, c \in Segments }

InitValid ==
    \E in_keyDescriptor \in DescriptorSets :
        Constructed(sCALL(DatabaseName, Len(in_keyDescriptor), in_keyDescriptor,
                          MINIMUM_RESERVED_INDEX_RECORDS))

ValidCreate ==
    DoCreate(hist.call.in_databaseName, hist.call.in_nrOfKeys,
             hist.call.in_keyDescriptor, hist.call.in_reservedIndexRecords)

ValidOpen ==
    DoOpen(DatabaseName, FALSE, DEFAULT_ALLOCATED_INDEX_KEYS, MaxValidOpens)

NextValid ==
    \/ ValidCreate
    \/ ValidOpen
    \/ Close

SpecValid == InitValid /\ [][NextValid]_vars

-----------------------------------------------------------------------------
(* SpecCodec: convertKey() on stores of one key, whose descriptor is drawn  *)
(* from CodecDescriptors: keys of the full size with every value of         *)
(* CodecValues, and keys of every size from 0 to one more than the key's.   *)

\* One segment of each type, and descriptors of two segments.
CodecDescriptors ==
    { << << [offset |-> 0, type |-> t, size |-> IF t \in {tS16, tU16} THEN 2 ELSE 4] >> >> :
         t \in {tS16, tU16, tS32, tU32} }
      \cup { << << [offset |-> 0, type |-> tBYTE, size |-> 2] >> >>,
             << << [offset |-> 0, type |-> tBYTE, size |-> 2],
                   [offset |-> 2, type |-> tS16, size |-> 2] >> >>,
             << << [offset |-> 0, type |-> tU16, size |-> 2],
                   [offset |-> 2, type |-> tBYTE, size |-> 2] >> >> }

\* The bytes the values of the keys are made of.
CodecBytes == {0, 128, 255}

\* The buffers of n bytes.
CodecValues(n) == [1..n -> CodecBytes]

InitCodec ==
    \E in_keyDescriptor \in CodecDescriptors :
        Constructed(sCALL(DatabaseName, Len(in_keyDescriptor), in_keyDescriptor,
                          MINIMUM_RESERVED_INDEX_RECORDS))

\* convertKey() of a key of the full size.
CodecConvertKey ==
    /\ m_handle # << >>
    /\ \E in_pValue \in CodecValues(m_handle[1].apKeyIndex[1].keySize) :
          DoConvertKey(0, Len(in_pValue), in_pValue)

\* convertKey() of a key of any size in a buffer of the full size.
CodecConvertPartialKey ==
    /\ m_handle # << >>
    /\ \E in_size \in 0..(m_handle[1].apKeyIndex[1].keySize + 1) :
          DoConvertKey(0, in_size, Fill(m_handle[1].apKeyIndex[1].keySize, 128))

NextCodec ==
    \/ ValidCreate
    \/ CodecConvertKey
    \/ CodecConvertPartialKey

SpecCodec == InitCodec /\ [][NextCodec]_vars

-----------------------------------------------------------------------------
(* SpecReuse: searches with an sKEY that has served a search before, with   *)
(* the value it had or with a new one, in the session that created the      *)
(* records and after the store has been opened again.                       *)

\* The keys the callers search, as << id, size, value >>: key 0 of the
\* first, third and fourth record of ChainRecord, and one that no record
\* has.
ReuseKeys ==
    { << 0, 2, << 0, 0, 0 >> >>, << 0, 2, << 4, 2, 0 >> >>, << 0, 2, << 1, 1, 0 >> >>,
      << 0, 2, << 9, 9, 0 >> >> }

ReuseOpen ==
    DoOpen(DatabaseName, FALSE, DEFAULT_ALLOCATED_INDEX_KEYS, MaxReuseOpens)

ReuseCreateRecord ==
    /\ m_handle # << >>
    /\ \E sel \in Selections :
          DoCreateRecord(ChainRecord(getNrOfRecords(m_handle[1])), sel, MaxReuseCreates)

ReuseExistRecord ==
    \E k \in ReuseKeys : DoExistRecord(k[1], k[2], k[3])

ReuseConvertKeyAgain ==
    \E k \in ReuseKeys : key.id = k[1] /\ DoConvertKeyAgain(k[2], k[3])

NextReuse ==
    \/ Create
    \/ ReuseOpen
    \/ Close
    \/ ReuseCreateRecord
    \/ ReuseExistRecord
    \/ ReuseConvertKeyAgain
    \/ DoExistRecordAgain

SpecReuse == Init /\ [][NextReuse]_vars

-----------------------------------------------------------------------------
(* SpecFault: createRecord on a file whose ::write returns ERROR after some *)
(* calls, in stores of up to MaxFaultCreates records in blocks of ten.      *)

\* The numbers of calls of ::write that succeed before one fails: within the
\* five writes of a createRecord, and within the writes of a createRecord
\* that appends a block of reserved index records.
FaultWrites == {0, 1, 2, 3, 4, 5, 15, 26, 27}

FaultOpen ==
    \E in_allocatedIndexKeys \in {0, DEFAULT_ALLOCATED_INDEX_KEYS} :
        DoOpen(DatabaseName, FALSE, in_allocatedIndexKeys, MaxFaultOpens)

FaultCreateRecord ==
    /\ m_handle # << >>
    /\ \E sel \in Selections :
          DoCreateRecord(ChainRecord(getNrOfRecords(m_handle[1])), sel, MaxFaultCreates)

FaultCreateRecordFails ==
    /\ m_handle # << >>
    /\ hist.faults < MaxFaults
    /\ \E sel \in Selections, writes \in FaultWrites :
          DoCreateRecordWrites(ChainRecord(getNrOfRecords(m_handle[1])), sel,
                               MaxFaultCreates, writes)

NextFault ==
    \/ Create
    \/ FaultOpen
    \/ Close
    \/ FaultCreateRecord
    \/ FaultCreateRecordFails

SpecFault == Init /\ [][NextFault]_vars

-----------------------------------------------------------------------------
(* SpecList: several deleteRecord calls on a store of up to MaxListCreates  *)
(* records, which build the list of deleted index entries.                  *)

ListOpen ==
    DoOpen(DatabaseName, FALSE, DEFAULT_ALLOCATED_INDEX_KEYS, MaxListOpens)

ListCreateRecord ==
    /\ m_handle # << >>
    /\ \E sel \in Selections :
          DoCreateRecord(ChainRecord(getNrOfRecords(m_handle[1])), sel, MaxListCreates)

ListDeleteRecord ==
    \E in_index \in 0..(MaxListCreates + 1) : DoDeleteRecord(in_index, MaxListDeletes)

NextList ==
    \/ Create
    \/ ListOpen
    \/ Close
    \/ ListCreateRecord
    \/ ListDeleteRecord

SpecList == Init /\ [][NextList]_vars

-----------------------------------------------------------------------------
(* SpecRegistry: open and close of the store by MaxHandles OSNDXFIO objects *)
(* of the process.                                                          *)

RegistryOpen ==
    DoOpen(DatabaseName, FALSE, DEFAULT_ALLOCATED_INDEX_KEYS, MaxRegistryOpens)

RegistryOpenOther ==
    \E a \in Handles \ {ThisObject} : DoOpenOther(a, TRUE)

RegistryCloseOther ==
    \E a \in Handles \ {ThisObject} : DoCloseOther(a)

NextRegistry ==
    \/ Create
    \/ RegistryOpen
    \/ Close
    \/ RegistryOpenOther
    \/ RegistryCloseOther

SpecRegistry == Init /\ [][NextRegistry]_vars

-----------------------------------------------------------------------------
(* SpecRebuild: rebuild() of stores of up to MaxRebuildCreates records, in  *)
(* the session that created them and after the store was opened again,      *)
(* with the key descriptors of the store and with others.                   *)

\* The key descriptors of the new store: one key, the second byte.
RebuildDescriptors == << << [offset |-> 1, type |-> tBYTE, size |-> 1] >> >>

RebuildOpen ==
    DoOpen(DatabaseName, FALSE, DEFAULT_ALLOCATED_INDEX_KEYS, MaxRebuildOpens)

RebuildCreateRecord ==
    /\ m_handle # << >>
    /\ \E sel \in Selections :
          DoCreateRecord(ChainRecord(getNrOfRecords(m_handle[1])), sel, MaxRebuildCreates)

\* Records are deleted from stores that are large enough to be rebuilt.
RebuildDeleteRecord ==
    /\ Len(hist.recs) >= MINIMUM_RESERVED_INDEX_RECORDS
    /\ \E in_index \in {0, 1, MaxRebuildCreates - 1} :
          DoDeleteRecord(in_index, MaxRebuildDeletes)

\* rebuild() into a new file or into the file of the store, with a transfer
\* buffer of one byte or of the default size.
Rebuild ==
    \E in_databaseName \in {RebuildName, DatabaseName},
       in_keyDescriptor \in {KeyDescriptors, RebuildDescriptors},
       in_maxDataSize \in {1, MAXIMUM_DATA_SIZE},
       u \in {0, 255},
       moved \in BOOLEAN :
          DoRebuild(in_databaseName, Len(in_keyDescriptor), in_keyDescriptor,
                    in_maxDataSize, u, moved)

NextRebuild ==
    \/ Create
    \/ RebuildOpen
    \/ Close
    \/ RebuildCreateRecord
    \/ RebuildDeleteRecord
    \/ Rebuild

SpecRebuild == Init /\ [][NextRebuild]_vars

-----------------------------------------------------------------------------
(* The properties of the store.  hist.recs holds the records whose         *)
(* createRecord returned true, in the order of the calls: the bytes, the    *)
(* slot id the call returned, whether the call was made in the session that *)
(* is open, and whether a deleteRecord of that slot id has returned true.   *)

\* The encoded key k of a record, as generateSearchKey encodes it.
KeyBytes(pData, k) ==
    LET gk == generateSearchKey(KeyDescriptors, sRECORD(pData))
        off == SumSizes(AllSegments(SubSeq(KeyDescriptors, 1, k)))
    IN SubSeq(gk.key, off + 1, off + SumSizes(KeyDescriptors[k + 1]))

\* The record carries the converted value of the search key in_rKey.
Carries(pData, in_rKey) ==
    SubSeq(KeyBytes(pData, in_rKey.id), 1, in_rKey.size)
        = SubSeq(in_rKey.pValue, 1, in_rKey.size)

\* The live records: created and not deleted.
Live == { i \in 1..Len(hist.recs) : ~hist.recs[i].deleted }

\* The live records that carry the value of the search key.
Matching(in_rKey) == { i \in Live : Carries(hist.recs[i].pData, in_rKey) }

\* C1: round trip within a session.  When getRecord is called with the slot
\* id that a successful createRecord of the open session returned, and with a
\* buffer that is large enough, it returns true and yields exactly the bytes
\* and the size of that record.
C1_RoundTripInSession ==
    (ret.op = "getRecord" /\ pc = "idle") =>
        \A i \in 1..Len(hist.recs) :
            (/\ hist.recs[i].current
             /\ ~hist.recs[i].deleted
             /\ hist.recs[i].slot = ret.index
             /\ ret.allocatedSize >= Len(hist.recs[i].pData))
            => /\ ret.ok
               /\ ret.pData = hist.recs[i].pData
               /\ ret.dataSize = Len(hist.recs[i].pData)

\* C1's case: the second and the third record of a session differ, and
\* getRecord has returned the third one, of four bytes, for its slot id.
C1_Witness ==
    /\ ret.op = "getRecord"
    /\ ret.ok
    /\ Len(hist.recs) = 3
    /\ hist.recs[3].current
    /\ hist.recs[3].slot = ret.index
    /\ hist.recs[2].pData # hist.recs[3].pData
    /\ ret.pData = hist.recs[3].pData
    /\ ret.dataSize = 4

\* C3: the slot id createRecord returns is the record's 0-based sequence
\* number: on a store without deletions the k-th successful createRecord
\* returns k - 1.
C3_SlotIsSequenceNumber ==
    hist.nDeleteOk = 0 =>
        \A k \in 1..Len(hist.recs) : hist.recs[k].slot = k - 1

\* C4: a slot id is stable.  While a store is open, getRecord of the slot id
\* that createRecord returned for a record that is not deleted yields that
\* record, in the session of the createRecord and in the sessions after it.
C4_SlotIdStable ==
    (m_handle # << >> /\ pc = "idle") =>
        \A i \in Live :
            \A g \in (IF hist.recs[i].slot < Len(m_handle[1].apKey) THEN {0} ELSE Garbage32) :
                LET r == getRecord(m_handle[1], disk.bytes, hist.recs[i].slot, LargeBuffer, g)
                IN /\ r.statusOk
                   /\ r.pData = hist.recs[i].pData
                   /\ r.dataSize = Len(hist.recs[i].pData)

\* C5: while a store is open, getNrOfRecords is the number of the createRecord
\* calls that returned true less the number of the deleteRecord calls that
\* returned true.
C5_CountIsCreatesLessDeletes ==
    (m_handle # << >> /\ pc = "idle") =>
        getNrOfRecords(m_handle[1]) = Len(hist.recs) - hist.nDeleteOk

\* C10: deleted-reuse fit.  A createRecord that follows, in the same session,
\* a successful deleteRecord of a slot with d bytes of data returns true; it
\* returns that slot id when its record has at most d bytes and a slot id no
\* record had when it has more.  (A record too short for the keys is no case.)
C10_DeletedReuseFit ==
    ret.op = "createRecord" =>
        \A i \in 1..Len(hist.recs) :
            (/\ hist.recs[i].deleted
             /\ hist.recs[i].current
             /\ generateSearchKey(KeyDescriptors, sRECORD(ret.pData)).bResult)
            => /\ pc = "idle"
               /\ ret.ok
               /\ IF ret.dataSize <= Len(hist.recs[i].pData)
                  THEN ret.index = hist.recs[i].slot
                  ELSE \A j \in 1..(Len(hist.recs) - 1) : hist.recs[j].slot # ret.index

\* C6: equal-range completeness.  After existRecord with a key it could
\* convert, getSearchCount is the number of the live records (those of the
\* open session included) whose encoded key starts with the bytes searched,
\* and existRecord has returned true exactly when there is one.
C6_EqualRangeComplete ==
    (ret.op = "existRecord" /\ key.conversionDone) =>
        /\ getSearchCount(key) = Cardinality(Matching(key))
        /\ ret.ok <=> Cardinality(Matching(key)) >= 1

\* The sum of the search counts of existRecord over the encoded values vs of
\* key k.
RECURSIVE SumOfCounts(_, _)
SumOfCounts(vs, k) ==
    IF vs = {} THEN 0
    ELSE LET v == CHOOSE v \in vs : TRUE
             in_rKey == [sKEY(k, Len(v), v) EXCEPT !.conversionDone = TRUE]
         IN getSearchCount(existRecord(m_handle[1], m_error, in_rKey, INVALID_VALUE).in_rKey)
              + SumOfCounts(vs \ {v}, k)

\* The sizes of a search key of key k that convertKey accepts: the whole key,
\* and the first bytes of it that end in a segment of bytes.
LegalSizes(h, k) ==
    { n \in 1..h.apKeyIndex[k + 1].keySize :
        convertKey(h, sKEY(k, n, Fill(h.apKeyIndex[k + 1].keySize, 0))).in_rKey.conversionDone }

\* existRecord with the first n bytes of the encoded key k of a record: the
\* search finds a record that carries them and counts the records that do.
FindsAll(pData, k, n) ==
    LET in_rKey == [sKEY(k, n, SubSeq(KeyBytes(pData, k), 1, n))
                       EXCEPT !.conversionDone = TRUE]
        e == existRecord(m_handle[1], m_error, in_rKey, INVALID_VALUE)
        r == getRecord(e.h, disk.bytes, e.out_rIndex, LargeBuffer, 0)
    IN /\ e.bResult
       /\ getSearchCount(e.in_rKey) = Cardinality(Matching(in_rKey))
       /\ r.statusOk
       /\ Carries(r.pData, in_rKey)

\* C7: the searches of a store opened from disk, with no createRecord or
\* deleteRecord since.  An existRecord with a value that a stored record
\* carries, a whole key or the first bytes of one, returns true with the slot
\* of a record that carries it, and getSearchCount is the number of the stored
\* records that carry it; over the distinct values of a key the counts add up
\* to getNrOfRecords.
C7_SearchAfterOpen ==
    (m_handle # << >> /\ ~hist.dirty) =>
        /\ (ret.op = "existRecord" /\ key.conversionDone /\ Matching(key) # {}) =>
              /\ ret.ok
              /\ getSearchCount(key) = Cardinality(Matching(key))
              /\ LET r == getRecord(m_handle[1], disk.bytes, ret.index, LargeBuffer, 0)
                 IN r.statusOk /\ Carries(r.pData, key)
        /\ \A k \in 0..(Len(KeyDescriptors) - 1) :
              /\ \A i \in 1..Len(hist.recs) :
                    \A n \in LegalSizes(m_handle[1], k) :
                        FindsAll(hist.recs[i].pData, k, n)
              /\ SumOfCounts({ KeyBytes(hist.recs[i].pData, k) : i \in 1..Len(hist.recs) }, k)
                   = getNrOfRecords(m_handle[1])

\* C7's case: a store of fifteen records, in two blocks of index records, has
\* been opened again, and the search of a first byte of key 0, which three of
\* them carry, has counted the three.
C7_Witness ==
    /\ m_handle # << >>
    /\ ~hist.dirty
    /\ hist.opens = 1
    /\ Len(hist.recs) > StraightInsertionMax
    /\ getNrOfRecords(m_handle[1]) = Len(hist.recs)
    /\ ret.op = "existRecord"
    /\ ret.ok
    /\ key.size = 1
    /\ getSearchCount(key) = 3
    /\ Cardinality(Matching(key)) = 3

\* The slot ids of a sequence are different from each other.
NoSlotTwice(iter) == \A i, j \in 1..Len(iter) : iter[i] = iter[j] => i = j

\* C8: iteration over a selection.  The slot id existRecord returned and the
\* slot ids the calls of getNextRecord for its key returned after it are the c
\* = getSearchCount matching records, each once: no slot id comes twice, and
\* when getNextRecord fails there have been c of them.
C8_IterateSelection ==
    hist.iterValid =>
        /\ NoSlotTwice(hist.iter)
        /\ Len(hist.iter) <= getSearchCount(key)
        /\ hist.iterEnd => Len(hist.iter) = getSearchCount(key)

\* The slots at the first n positions of the key array of key k are in the
\* order of their encoded keys.
KeyArraySorted(h, k, n) ==
    LET ki == h.apKeyIndex[k + 1]
    IN \A p \in 1..(n - 1) :
          memcmp(SlotKey(h.apKey, ki.apRecord[p], ki),
                 SlotKey(h.apKey, ki.apRecord[p + 1], ki), ki.keySize) <= 0

C2_PersistedRoundTrip ==
    (m_handle # << >> /\ ~hist.dirty /\ hist.nDeleteOk = 0) =>
        /\ getNrOfRecords(m_handle[1]) = Len(hist.recs)
        /\ \A i \in 1..Len(hist.recs) :
              LET r == getRecord(m_handle[1], disk.bytes, i - 1, LargeBuffer, 0)
              IN /\ r.statusOk
                 /\ r.pData = hist.recs[i].pData
                 /\ r.dataSize = Len(hist.recs[i].pData)

\* C11: deleteRecord returns true only for a slot that holds a live record.
\* A call that fails leaves ENTRY_NOT_FOUND as the last error, and a second
\* deleteRecord of the slot directly after a successful one fails with
\* ENTRY_NOT_FOUND and changes nothing, whichever slot was deleted.
C11_DeleteOnlyLive ==
    (m_handle # << >> /\ pc = "idle" /\ ret.op = "deleteRecord") =>
        /\ ~ret.ok => m_error = "ENTRY_NOT_FOUND"
        /\ ret.ok =>
              /\ ~deleteRecord(m_handle[1], ret.index, 0).statusOk
              /\ deleteRecord(m_handle[1], ret.index, 0).m_error = "ENTRY_NOT_FOUND"
              /\ deleteRecord(m_handle[1], ret.index, 0).h = m_handle[1]

\* C12: after deleteRecord of a slot has returned true, getRecord of that
\* slot fails in the session, as long as no createRecord has used the slot
\* again.
C12_DeletedNotReadable ==
    (ret.op = "getRecord" /\ ret.ok) =>
        ~\E i \in 1..Len(hist.recs) :
            /\ hist.recs[i].current
            /\ hist.recs[i].deleted
            /\ hist.recs[i].slot = ret.index
            /\ \A j \in (i + 1)..Len(hist.recs) : hist.recs[j].slot # ret.index

\* C13: after updateRecord of a live slot has returned true, getRecord of the
\* slot returns exactly the payload that was passed to updateRecord.
C13_UpdateOverwrites ==
    (m_handle # << >> /\ pc = "idle" /\ ret.op = "updateRecord" /\ ret.ok) =>
        \A i \in Live :
            (hist.recs[i].current /\ hist.recs[i].slot = ret.index) =>
                /\ getRecord(m_handle[1], disk.bytes, ret.index, LargeBuffer, 0).statusOk
                /\ getRecord(m_handle[1], disk.bytes, ret.index, LargeBuffer, 0).pData
                     = ret.pData

\* The record reference in the header of the database file.
FileRecordReference(d) ==
    DecHeader(SubSeq(d.bytes, SizeofData + 1, SizeofData + SizeofHeader)).recordReference

\* The slots of the index memory that hold a record, live or deleted.
UsedSlots(h) ==
    { s \in 0..(Len(h.apKey) - 1) :
        h.apKey[s + 1].status # eRESERVED /\ h.apKey[s + 1].dataOffset # INVALID_VALUE }

\* C16: the record reference of the header grows with each createRecord
\* that returns true and never goes down, in the memory of an open store and
\* in the file, which keeps it over close and open; so no two records of a
\* store carry the same record reference.
C16_RecordReferenceGrows ==
    [][/\ (m_handle # << >> /\ m_handle' # << >>) =>
             /\ m_handle'[1].hdr.recordReference >= m_handle[1].hdr.recordReference
             /\ (ret'.op = "createRecord" /\ ret'.ok) =>
                    m_handle'[1].hdr.recordReference > m_handle[1].hdr.recordReference
       /\ (disk.exists /\ pc' # "hung") =>
             FileRecordReference(disk') >= FileRecordReference(disk)
       /\ (m_handle' # << >> /\ pc' = "idle") =>
             /\ m_handle'[1].hdr.recordReference = FileRecordReference(disk')
             /\ \A s, t \in UsedSlots(m_handle'[1]) :
                    s # t => m_handle'[1].apKey[s + 1].recordRef
                               # m_handle'[1].apKey[t + 1].recordRef]_vars

\* C16 happens: a createRecord has returned true in a store that was opened
\* again after a createRecord and a deleteRecord, and it is the second record
\* of the store.
C16_Witness ==
    /\ ret.op = "createRecord"
    /\ ret.ok
    /\ pc = "idle"
    /\ hist.opens = 1
    /\ hist.nDeleteOk = 1
    /\ Len(hist.recs) = 2
    /\ m_handle[1].hdr.recordReference = 2
    /\ Cardinality(UsedSlots(m_handle[1])) = 2

-----------------------------------------------------------------------------
(* Claims about create, open and the key descriptors.                      *)

\* The size of a segment matches its type.
SizeMatchesType(seg) ==
    \/ seg.type \in {tS16, tU16} /\ seg.size = 2
    \/ seg.type \in {tS32, tU32} /\ seg.size = 4
    \/ seg.type = tBYTE /\ seg.size > 0

\* The byte ranges [offset, offset + size - 1] of two segments are disjoint.
Disjoint(a, c) ==
    a.offset + a.size - 1 < c.offset \/ c.offset + c.size - 1 < a.offset

\* Every segment's size matches its type and the segments of each descriptor
\* are pairwise disjoint.
DescriptorsWellFormed(descs) ==
    \A i \in 1..Len(descs) :
        /\ \A j \in 1..Len(descs[i]) : SizeMatchesType(descs[i][j])
        /\ \A j, k \in 1..Len(descs[i]) : j < k => Disjoint(descs[i][j], descs[i][k])

\* The parameters create() refuses: no name, no key, or a number of reserved
\* index records outside 10 .. 10000.
ParametersRefused(call) ==
    \/ call.in_databaseName = NullName
    \/ call.in_nrOfKeys = 0
    \/ call.in_reservedIndexRecords \notin 10..10000

\* The step is a call that has failed with err, has left the handle as it
\* was and has neither created nor changed a file.
Rejected(err) ==
    /\ ~ret'.ok
    /\ m_error' = err
    /\ m_handle' = m_handle
    /\ disk' = disk
    /\ rebuilt' = rebuilt

C18_CreateOpensStore ==
    [][/\ (ret'.op = "create" /\ ret'.ok) =>
             /\ m_handle' # << >>
             /\ getNrOfRecords(m_handle'[1]) = 0
       /\ (ret.op = "create" /\ ret.ok /\ ret'.op = "open") =>
             /\ ~ret'.ok
             /\ m_error' = "DATABASE_ALREADY_OPENED"]_vars

\* C18 happens: the first open() of the file that create has made has failed
\* with DATABASE_ALREADY_OPENED.
C18_Witness ==
    /\ ret.op = "open"
    /\ ret.in_databaseName = DatabaseName
    /\ ~ret.ok
    /\ m_error = "DATABASE_ALREADY_OPENED"
    /\ hist.opens = 1
    /\ disk.exists

C20_DescriptorValidation ==
    /\ isKeyDescriptorValid(hist.call.in_nrOfKeys, hist.call.in_keyDescriptor).bValid
          <=> DescriptorsWellFormed(hist.call.in_keyDescriptor)
    /\ (ret.op = "create" /\ m_error # "DATABASE_ALREADY_OPENED") =>
          /\ m_error = "INVALID_KEY_DESCRIPTOR"
                <=> ~DescriptorsWellFormed(hist.call.in_keyDescriptor)
          /\ ~disk.exists <=> ~DescriptorsWellFormed(hist.call.in_keyDescriptor)
    /\ m_handle # << >> =>
          /\ DescriptorsWellFormed(hist.call.in_keyDescriptor)
          /\ m_handle[1].apKeyDescriptor = hist.call.in_keyDescriptor

\* C20 happens: create has accepted two descriptors whose segments overlap
\* each other in part.
C20_Witness ==
    /\ ret.op = "create"
    /\ ret.ok
    /\ Len(hist.call.in_keyDescriptor) = 2
    /\ hist.call.in_keyDescriptor[1][1].offset < hist.call.in_keyDescriptor[2][1].offset
    /\ hist.call.in_keyDescriptor[2][1].type = tS32
    /\ ~Disjoint(hist.call.in_keyDescriptor[1][1], hist.call.in_keyDescriptor[2][1])

-----------------------------------------------------------------------------
(* Claims about rebuild.                                                    *)

\* What getRecord returns for each record of the store in the file d, opened
\* under the name of the rebuilt store.
RebuiltRecords(d) ==
    LET o == open(d, << >>, RebuildName, FALSE, DEFAULT_ALLOCATED_INDEX_KEYS)
    IN IF ~d.exists \/ ~o.statusOk THEN << >>
       ELSE [i \in 1..getNrOfRecords(o.m_handle[1]) |->
                getRecord(o.m_handle[1], d.bytes, i - 1, MAX_MALLOC, 0)]

\* C14: rebuild() into a file that is not there, of an open store that holds
\* L >= 1 records that were created and not deleted, returns true and leaves
\* a store of exactly L records, each with the bytes of one of those
\* records.
C14_RebuildCopiesLive ==
    [][(/\ ret'.op = "rebuild"
        /\ ret'.in_databaseName = RebuildName
        /\ m_handle # << >>
        /\ ~rebuilt.exists
        /\ Cardinality(Live) >= 1)
       => /\ ret'.ok
          /\ Len(RebuiltRecords(rebuilt')) = Cardinality(Live)
          /\ \A i \in 1..Len(RebuiltRecords(rebuilt')) :
                /\ RebuiltRecords(rebuilt')[i].statusOk
                /\ \E l \in Live :
                      hist.recs[l].pData = RebuiltRecords(rebuilt')[i].pData]_vars

\* C15: a call of rebuild() leaves the file of the source as it is, and when
\* it returns the store in memory too: the number of records, the status of
\* every index entry and what getRecord reads.  For a source without records
\* it returns false with EMPTY_DATABASE and the file it names is as before.
C15_RebuildKeepsSource ==
    [][ret'.op = "rebuild"
       => /\ disk' = disk
          /\ pc' = "idle" =>
                /\ m_handle' = m_handle
                /\ getNrOfRecords(m_handle'[1]) = getNrOfRecords(m_handle[1])
                /\ \A i \in 1..Len(m_handle[1].apKey) :
                      /\ m_handle'[1].apKey[i].status = m_handle[1].apKey[i].status
                      /\ getRecord(m_handle'[1], disk'.bytes, i - 1, MAX_MALLOC, 0)
                            = getRecord(m_handle[1], disk.bytes, i - 1, MAX_MALLOC, 0)
          /\ getNrOfRecords(m_handle[1]) = 0 =>
                /\ ~ret'.ok
                /\ m_error' = "EMPTY_DATABASE"
                /\ rebuilt' = rebuilt]_vars

\* A rebuild() of a store with a deleted record has returned true and has
\* written the new file.
C15_Witness ==
    /\ ret.op = "rebuild"
    /\ ret.ok
    /\ rebuilt.exists
    /\ hist.nDeleteOk > 0
    /\ pc = "idle"

-----------------------------------------------------------------------------
(* Claims about the conversion of keys.                                     *)

\* The number a segment of a type holds in the bytes a is less than the one
\* in the bytes c.
NumberLess(type, a, c) ==
    LET S16(x) == IF Word16(x, 0) >= 32768 THEN Word16(x, 0) - 65536 ELSE Word16(x, 0)
    IN CASE type = tU16 -> Word16(a, 0) < Word16(c, 0)
         [] type = tS16 -> S16(a) < S16(c)
         [] type = tU32 -> ULess(Word32(a, 0), Word32(c, 0))
         [] type = tS32 -> Word32(a, 0) < Word32(c, 0)

\* The last two conversions were of keys of the full size of a key of one
\* segment.
TwoSegmentsConverted ==
    /\ m_handle # << >>
    /\ Len(m_handle[1].apKeyDescriptor[1]) = 1
    /\ Len(hist.conv) = 2
    /\ \A i \in 1..2 : hist.conv[i].in_rKey.size = m_handle[1].apKeyIndex[1].keySize

\* C21: the converted forms of two values of a segment of 16 or 32 bits,
\* signed or not, compare byte by byte as the two numbers compare; a segment
\* of bytes is left as it is.
C21_CodecOrdering ==
    TwoSegmentsConverted =>
        LET seg == m_handle[1].apKeyDescriptor[1][1]
            a == hist.conv[1]
            c == hist.conv[2]
            cmp == memcmp(a.in_rKey.pValue, c.in_rKey.pValue, seg.size)
        IN /\ a.in_rKey.conversionDone /\ c.in_rKey.conversionDone
           /\ seg.type = tBYTE =>
                 a.in_rKey.pValue = a.in_pValue /\ c.in_rKey.pValue = c.in_pValue
           /\ seg.type # tBYTE =>
                 /\ cmp < 0 <=> NumberLess(seg.type, a.in_pValue, c.in_pValue)
                 /\ cmp > 0 <=> NumberLess(seg.type, c.in_pValue, a.in_pValue)
                 /\ cmp = 0 <=> a.in_pValue = c.in_pValue

\* A negative and a positive number of 32 bits have been converted, and the
\* converted form of the negative one compares less.
C21_Witness ==
    /\ TwoSegmentsConverted
    /\ m_handle[1].apKeyDescriptor[1][1].type = tS32
    /\ hist.conv[1].in_pValue = << 255, 0, 0, 128 >>
    /\ hist.conv[2].in_pValue = << 0, 128, 0, 0 >>
    /\ memcmp(hist.conv[1].in_rKey.pValue, hist.conv[2].in_rKey.pValue, 4) < 0

\* A key of size p ends where a segment of segs ends, or inside a segment of
\* bytes, and is not longer than the segments together.
LegalSize(segs, p) ==
    /\ p <= SumSizes(segs)
    /\ \/ \E j \in 0..Len(segs) : p = SumSizes(SubSeq(segs, 1, j))
       \/ \E j \in 1..Len(segs) :
             /\ segs[j].type = tBYTE
             /\ SumSizes(SubSeq(segs, 1, j - 1)) < p
             /\ p < SumSizes(SubSeq(segs, 1, j))

\* C22: convertKey accepts a key of size p exactly when p is at most the size
\* of the key and the key ends on the boundary of a segment or inside a
\* segment of bytes; otherwise it returns false with INVALID_KEY and
\* conversionDone is false.
C22_PartialKeyLegality ==
    (ret.op = "convertKey" /\ m_handle # << >>) =>
        /\ ret.ok <=> LegalSize(m_handle[1].apKeyDescriptor[key.id + 1], key.size)
        /\ ret.ok => key.conversionDone /\ m_error = "NO_ERROR"
        /\ ~ret.ok => ~key.conversionDone /\ m_error = "INVALID_KEY"

\* A key that ends inside the segment of bytes behind a number has been
\* accepted.
C22_Witness ==
    /\ ret.op = "convertKey"
    /\ m_handle # << >>
    /\ Len(m_handle[1].apKeyDescriptor[1]) = 2
    /\ m_handle[1].apKeyDescriptor[1][2].type = tBYTE
    /\ key.size = 3
    /\ ret.ok

-----------------------------------------------------------------------------
(* Claims about the last error.                                             *)

\* The operations that return a bool and set the last error.
Operations ==
    {"open", "create", "rebuild", "createRecord", "getRecord", "getNextRecord",
     "existRecord", "deleteRecord", "updateRecord", "convertKey"}

\* C23: directly after an operation that has returned true the last error
\* is NO_ERROR, whatever an earlier operation has left there.
C23_NoErrorAfterSuccess ==
    (ret.op \in Operations \ {"rebuild"} /\ ret.ok) => m_error = "NO_ERROR"

\* C24: directly after an operation that has returned false the last error
\* is an error and not NO_ERROR.
C24_ErrorAfterFailure ==
    (ret.op \in Operations /\ ~ret.ok) => m_error # "NO_ERROR"

-----------------------------------------------------------------------------
(* Claims about the search key.                                             *)

\* The records created whose key compares less than the search key.
Before(in_rKey) ==
    { i \in 1..Len(hist.recs) :
         memcmp(KeyBytes(hist.recs[i].pData, in_rKey.id), in_rKey.pValue, in_rKey.size) < 0 }

\* C25: when existRecord has returned false for a legal key, whatever the
\* number of records, the last error is ENTRY_NOT_FOUND, key.index is the
\* position in the order of the key at which the key would be inserted, and
\* the cursor of the key is invalid.
C25_MissReported ==
    (/\ ret.op = "existRecord"
     /\ ~ret.ok
     /\ m_handle # << >>
     /\ LegalSize(m_handle[1].apKeyDescriptor[key.id + 1], key.size))
    => /\ m_error = "ENTRY_NOT_FOUND"
       /\ key.index = Cardinality(Before(key))
       /\ m_handle[1].apKeyIndex[key.id + 1].position = INVALID_VALUE

\* C26: existRecord with an sKEY that has served before, whether the caller
\* has given it a new value and converted it or not, returns what it returns
\* for a newly constructed sKEY of the same id, size and value: the result,
\* the slot id, the count and the selection; and the search does not leave
\* the key array.
C26_KeyReuse ==
    [][(ret'.op = "existRecord" /\ m_handle # << >>)
       => /\ LET fresh == existRecord(m_handle[1], m_error,
                                      sKEY(key'.id, key'.size, ret'.pData),
                                      INVALID_VALUE)
             IN /\ ret'.ok = fresh.bResult
                /\ ret'.index = fresh.out_rIndex
                /\ getSearchCount(key') = getSearchCount(fresh.in_rKey)
                /\ m_handle'[1].apKeyIndex = fresh.h.apKeyIndex
          /\ pc' = "idle"]_vars

-----------------------------------------------------------------------------
(* Claims about close.                                                      *)

\* C27: close() on a handle that holds an open store returns true and leaves
\* the handle without a store; close() on a handle without a store changes
\* neither the handle nor the last error; no close() changes the file; and
\* an open() of the file that follows a close() returns true.
C27_CloseReleases ==
    [][/\ ret'.op = "close" =>
             /\ disk' = disk
             /\ m_handle' = << >>
             /\ m_handle # << >> => ret'.ok
             /\ m_handle = << >> => m_error' = m_error
       /\ (/\ ret.op = "close"
           /\ ret'.op = "open"
           /\ ret'.in_databaseName = DatabaseName
           /\ disk.exists) => ret'.ok /\ m_handle' # << >>]_vars

\* A store with a record has been closed.
C27_Witness ==
    /\ ret.op = "close"
    /\ ret.ok
    /\ m_handle = << >>
    /\ Len(hist.recs) > 0

-----------------------------------------------------------------------------
(* Claims about the index of the store.                                     *)

\* A segment of a key descriptor extends past the data of the record.
TooSmall(descs, rec) ==
    \E k \in 1..Len(descs) : \E j \in 1..Len(descs[k]) :
        descs[k][j].offset + descs[k][j].size > rec.dataOffset + rec.dataSize

\* C28: createRecord of a record that a key segment extends past returns
\* false with RECORD_TOO_SMALL and changes neither the file nor the store in
\* memory: the number of records, the record reference, the free offsets,
\* the index entries and the key arrays with their sorted flags; and it
\* reports RECORD_TOO_SMALL for no other record.
C28_RecordTooSmall ==
    [][(ret'.op = "createRecord" /\ m_handle # << >>)
       => /\ TooSmall(m_handle[1].apKeyDescriptor, sRECORD(ret'.pData))
               => /\ ~ret'.ok
                  /\ m_error' = "RECORD_TOO_SMALL"
                  /\ disk' = disk
                  /\ m_handle' = m_handle
                  /\ pc' = "idle"
          /\ m_error' = "RECORD_TOO_SMALL"
               => TooSmall(m_handle[1].apKeyDescriptor, sRECORD(ret'.pData))]_vars

\* createRecord has refused a record as too small in a store that holds a
\* record.
C28_Witness ==
    /\ ret.op = "createRecord"
    /\ ~ret.ok
    /\ m_error = "RECORD_TOO_SMALL"
    /\ Len(hist.recs) > 0
    /\ m_handle # << >>

\* The header stored in the file d.
FileHeader(d) == DecHeader(SubSeq(d.bytes, SizeofData + 1, SizeofData + SizeofHeader))

DataAt(bytes, o) ==
    IF o >= 0 /\ o + SizeofData <= Len(bytes)
    THEN DecData(SubSeq(bytes, o + 1, o + SizeofData))
    ELSE [id |-> 0, recordRef |-> 0, size |-> 0, offset |-> 0]

\* The offsets of the INDEX records of the file image, walked record by
\* record from offset o: a NEXT_INDEX record has no body, every other record
\* has size bytes behind its sDATA.
RECURSIVE IndexFrames(_, _)
IndexFrames(bytes, o) ==
    IF o + SizeofData > Len(bytes) THEN << >>
    ELSE LET d == DataAt(bytes, o)
             next == IF d.id = eNEXT_INDEX THEN o + SizeofData
                     ELSE o + SizeofData + (IF d.size > 0 THEN d.size ELSE 0)
         IN (IF d.id = eINDEX THEN << o >> ELSE << >>) \o IndexFrames(bytes, next)

\* The offsets of the INDEX records reached from the one at offset o through
\* the NEXT_INDEX records, at most n of them; INVALID_VALUE stands for a link
\* that does not lead from a NEXT_INDEX record to an INDEX record.
RECURSIVE IndexChain(_, _, _)
IndexChain(bytes, o, n) ==
    LET d == DataAt(bytes, o)
        next == DataAt(bytes, o + SizeofData + d.size)
    IN IF n = 0 \/ d.id # eINDEX \/ next.id # eNEXT_INDEX THEN << INVALID_VALUE >>
       ELSE IF next.size = 0 THEN << o >>
       ELSE << o >> \o IndexChain(bytes, next.size, n - 1)

\* The index record j of the block at offset o.
BlockEntry(bytes, o, j, totalIndexSize) ==
    LET at == o + SizeofData + j * totalIndexSize
    IN [at |-> at, index |-> DecIndex(SubSeq(bytes, at + 1, at + SizeofIndex))]

\* C30: the file of a store holds nrOfIndexRecords / reservedIndexRecords
\* INDEX records, one more than the number of times the records have filled a
\* block; each is a block of reservedIndexRecords entries that hold their own
\* file offset, in use up to nrOfRecords and RESERVED from there on; the
\* NEXT_INDEX records lead from the first block through every block once, in
\* the order of the file, each holding the offset of the INDEX record of the
\* next block, and the last one holds 0.
C30_IndexBlocksChained ==
    (disk.exists /\ pc # "undefined") =>
       LET hdr == FileHeader(disk)
           totalIndexSize == SizeofIndex + hdr.totalKeySize
           first == SizeofData + DataAt(disk.bytes, 0).size
           blocks == IndexFrames(disk.bytes, 0)
       IN /\ Len(blocks) * hdr.reservedIndexRecords = hdr.nrOfIndexRecords
          /\ Len(blocks) = hdr.nrOfRecords \div hdr.reservedIndexRecords + 1
          /\ blocks[1] = first
          /\ IndexChain(disk.bytes, first, Len(blocks)) = blocks
          /\ \A b \in 1..Len(blocks) :
                /\ DataAt(disk.bytes, blocks[b]).size
                      = hdr.reservedIndexRecords * totalIndexSize
                /\ \A j \in 0..(hdr.reservedIndexRecords - 1) :
                      LET e == BlockEntry(disk.bytes, blocks[b], j, totalIndexSize)
                      IN /\ e.index.offset = e.at
                         /\ e.index.status
                              = IF (b - 1) * hdr.reservedIndexRecords + j < hdr.nrOfRecords
                                THEN eOK ELSE eRESERVED

\* The eleventh createRecord of a store with blocks of ten has returned true
\* and the file holds two INDEX records.
C30_Witness ==
    /\ disk.exists
    /\ pc = "idle"
    /\ ret.op = "createRecord"
    /\ ret.ok
    /\ FileHeader(disk).reservedIndexRecords = MINIMUM_RESERVED_INDEX_RECORDS
    /\ FileHeader(disk).nrOfRecords = MINIMUM_RESERVED_INDEX_RECORDS + 1
    /\ Len(IndexFrames(disk.bytes, 0)) = 2

-----------------------------------------------------------------------------
(* Claims about the writes of createRecord.                                 *)

\* The bytes of the file image from offset o on, n of them.
BytesAt(bytes, o, n) ==
    [i \in 1..n |-> IF o + i <= Len(bytes) THEN bytes[o + i] ELSE 0]

\* The number of calls of ::write of a createRecord on the open store that
\* come before the one for the header of the file.
WritesBeforeHeader ==
    IF m_handle[1].hdr.nrOfRecords + 1 = m_handle[1].hdr.nrOfIndexRecords
    THEN 4 + 1 + 2 * m_handle[1].hdr.reservedIndexRecords + 1 + 1
    ELSE 4

\* A createRecord of a record that is large enough, on a store that is open
\* for writing, whose header in memory is the one of the file and whose next
\* free index entry is a reserved one; hist'.writes calls of ::write succeed
\* (all, when NoFault).
CreateRecordStep ==
    /\ ret'.op = "createRecord"
    /\ pc = "idle"
    /\ m_handle # << >>
    /\ ~m_handle[1].readOnly
    /\ m_handle[1].hdr = FileHeader(disk)
    /\ m_handle[1].hdr.lastDeletedIndex < 0
    /\ DecIndex(BytesAt(disk.bytes, m_handle[1].hdr.nextFreeIndex, SizeofIndex)).status
         = eRESERVED
    /\ ~TooSmall(m_handle[1].apKeyDescriptor, sRECORD(ret'.pData))

\* The writes of a createRecord come in the order data record, data, index
\* entry, key, block of reserved index records with its link, header: what
\* the file holds after the first hist'.writes of them.
WritesInOrder ==
    CreateRecordStep =>
       LET hdr == m_handle[1].hdr
           n == IF hist'.writes = NoFault THEN WritesBeforeHeader + 1 ELSE hist'.writes
           pData == ret'.pData
           data == DataAt(disk'.bytes, hdr.nextFreeData)
           index == DecIndex(BytesAt(disk'.bytes, hdr.nextFreeIndex, SizeofIndex))
           keyAt == hdr.nextFreeIndex + SizeofIndex
           block == hdr.nextFreeData + SizeofData + Len(pData)
       IN /\ n = 0 => disk'.bytes = disk.bytes
          /\ n >= 1 <=> Len(disk'.bytes) >= hdr.nextFreeData + SizeofData
          /\ n >= 1 => /\ data.id = eDATA
                        /\ data.recordRef = hdr.recordReference
                        /\ data.size = Len(pData)
          /\ n >= 2 => BytesAt(disk'.bytes, hdr.nextFreeData + SizeofData, Len(pData))
                          = pData
          /\ (n < 2 /\ Len(pData) > 0)
                => Len(disk'.bytes) <= hdr.nextFreeData + SizeofData
          /\ n >= 3 <=> index.status = eOK
          /\ n >= 3 => /\ index.dataOffset = hdr.nextFreeData
                        /\ index.dataSize = Len(pData)
                        /\ index.recordRef = hdr.recordReference
                        /\ index.offset = hdr.nextFreeIndex
          /\ n >= 4 => BytesAt(disk'.bytes, keyAt, hdr.totalKeySize)
                          = generateSearchKey(m_handle[1].apKeyDescriptor,
                                              sRECORD(pData)).key
          /\ n < 4 => BytesAt(disk'.bytes, keyAt, hdr.totalKeySize)
                         = BytesAt(disk.bytes, keyAt, hdr.totalKeySize)
          /\ n >= 5 <=> \/ Len(disk'.bytes) > block
                         \/ FileHeader(disk') # FileHeader(disk)
          /\ n > WritesBeforeHeader <=> FileHeader(disk') # FileHeader(disk)
          /\ n > WritesBeforeHeader
                => /\ FileHeader(disk').nrOfRecords = hdr.nrOfRecords + 1
                   /\ ret'.ok \/ m_error' = "MEMORY_ALLOCATION_ERROR"

\* The entry of every record that the header of the file counts is written
\* and so is its data record.
HeaderCountsWritten ==
    disk'.exists =>
       LET hdr == FileHeader(disk')
           blocks == IndexFrames(disk'.bytes, 0)
       IN \A k \in 0..(hdr.nrOfRecords - 1) :
             LET e == BlockEntry(disk'.bytes,
                                 blocks[k \div hdr.reservedIndexRecords + 1],
                                 k % hdr.reservedIndexRecords,
                                 SizeofIndex + hdr.totalKeySize).index
                 data == DataAt(disk'.bytes, e.dataOffset)
             IN /\ k \div hdr.reservedIndexRecords < Len(blocks)
                /\ e.status = eOK
                /\ data.id = eDATA
                /\ data.recordRef = e.recordRef
                /\ data.size = e.dataSize
                /\ Len(disk'.bytes) >= e.dataOffset + SizeofData + e.dataSize

\* The header in memory is the header that was written to the file.
HeaderMirrorsWritten ==
    (m_handle' # << >> /\ pc' = "idle") => m_handle'[1].hdr = FileHeader(disk')

\* C31: createRecord writes the data record, the data, the index entry, the
\* key, a block of reserved index records with its link when one is due, and
\* the header last; the header of the file counts no record whose data and
\* index entry are not written, and the header in memory is the header that
\* was written.
C31_WriteOrdering ==
    [][WritesInOrder /\ HeaderCountsWritten /\ HeaderMirrorsWritten]_vars

-----------------------------------------------------------------------------
(* Claims about the index entries in memory.                                *)

\* The slots of the open store whose entry in memory has the status OK.
OkSlots ==
    {s \in 0..(m_handle[1].hdr.nrOfIndexRecords - 1) :
        s < Len(m_handle[1].apKey) /\ m_handle[1].apKey[s + 1].status = eOK}

\* C32: every slot of the open store whose entry in memory has the status OK
\* has its data record in the file, with the id DATA and the record
\* reference of the entry, and no more slots have the status OK than the
\* store has received records.
C32_OkSlotsHaveData ==
    (m_handle # << >> /\ pc = "idle") =>
       /\ \A s \in OkSlots :
             LET e == m_handle[1].apKey[s + 1]
             IN /\ e.dataOffset >= 0
                /\ e.dataOffset + SizeofData <= Len(disk.bytes)
                /\ DataAt(disk.bytes, e.dataOffset).id = eDATA
                /\ DataAt(disk.bytes, e.dataOffset).recordRef = e.recordRef
       /\ Cardinality(OkSlots) <= m_handle[1].hdr.nrOfRecords

\* The index entry of slot s as the file d holds it: entry s % reserved of
\* block s \div reserved, the sINDEX and the keys behind it.
FileEntry(d, s) ==
    LET hdr == FileHeader(d)
        totalIndexSize == SizeofIndex + hdr.totalKeySize
        blocks == IndexFrames(d.bytes, 0)
    IN DecEntry(BytesAt(d.bytes,
                        blocks[s \div hdr.reservedIndexRecords + 1] + SizeofData
                          + (s % hdr.reservedIndexRecords) * totalIndexSize,
                        totalIndexSize),
                hdr.totalKeySize)

\* C33: after every call that has returned, the entry in memory of every
\* slot of the open store (status, offsets, size, record reference, keys) is
\* the index entry of that slot in the file.
C33_MemoryIsFileImage ==
    (m_handle # << >> /\ pc = "idle") =>
       \A s \in 0..(m_handle[1].hdr.nrOfIndexRecords - 1) :
          /\ s < Len(m_handle[1].apKey)
          /\ s \div FileHeader(disk).reservedIndexRecords
               < Len(IndexFrames(disk.bytes, 0))
          /\ m_handle[1].apKey[s + 1] = FileEntry(disk, s)

-----------------------------------------------------------------------------
(* Claims about the list of deleted index entries.                          *)

\* The slots on the list of deleted entries of h from slot s on, following
\* prevDeletedIndex for at most n entries; eRESERVED stands for a link that
\* leads nowhere or for a list longer than n.
RECURSIVE DeletedList(_, _, _)
DeletedList(h, s, n) ==
    IF s = INVALID_VALUE THEN << >>
    ELSE IF n = 0 \/ s < 0 \/ s >= Len(h.apKey) THEN << eRESERVED >>
    ELSE << s >> \o DeletedList(h, h.apKey[s + 1].status, n - 1)

\* The list of deleted entries of h from its head on.
DeletedSlots(h) == DeletedList(h, h.hdr.lastDeletedIndex, h.hdr.nrOfIndexRecords)

\* C34: the list of deleted entries of the open store ends at -1 and holds
\* no slot twice, every entry whose status is a link is on it, and it is
\* empty when no entry is; a deleteRecord that returns true puts its slot,
\* which was not on the list, in front of the list as it was.
C34_DeletedListWellFormed ==
    [][(m_handle' # << >> /\ pc' = "idle") =>
          LET list == DeletedSlots(m_handle'[1])
          IN /\ \A i \in 1..Len(list) : list[i] # eRESERVED
             /\ \A i, j \in 1..Len(list) : i # j => list[i] # list[j]
             /\ \A s \in 0..(Len(m_handle'[1].apKey) - 1) :
                   m_handle'[1].apKey[s + 1].status >= eDELETED
                      => \E i \in 1..Len(list) : list[i] = s
             /\ (ret'.op = "deleteRecord" /\ ret'.ok /\ m_handle # << >>) =>
                   /\ list = << ret'.index >> \o DeletedSlots(m_handle[1])
                   /\ \A i \in 1..Len(DeletedSlots(m_handle[1])) :
                         DeletedSlots(m_handle[1])[i] # ret'.index]_vars

-----------------------------------------------------------------------------
(* Claims about the registry of open stores.                                *)

\* The addresses on the list of the registry from address a on, at most n.
RECURSIVE RegistryList(_, _, _)
RegistryList(reg, a, n) ==
    IF a = 0 \/ n = 0 THEN << >>
    ELSE << a >> \o RegistryList(reg, reg.pNext[a], n - 1)

\* C35: the list of the registry holds the open stores of the process and
\* no other, each once, pPrevious of each is the one before it on the list
\* (NULL for the first), and pDatabaseListEntry is NULL when no store is
\* open; this object's store is on it exactly when m_handle is set.
C35_RegistryListsOpenStores ==
    LET reg == hist.registry
        list == RegistryList(reg, reg.head, MaxHandles + 1)
    IN /\ Len(list) = Cardinality(reg.open)
       /\ {list[i] : i \in 1..Len(list)} = reg.open
       /\ \A i \in 1..Len(list) :
             reg.pPrevious[list[i]] = IF i = 1 THEN 0 ELSE list[i - 1]
       /\ reg.open = {} => reg.head = 0
       /\ ThisObject \in reg.open <=> m_handle # << >>

-----------------------------------------------------------------------------
(* Claims about the calls that fail.                                        *)

\* C36: every call of createRecord returns, also when the store has a list
\* of deleted index entries: no call stays in the loop that looks for a
\* deleted record to use.
C36_CreateRecordReturns ==
    ret.op = "createRecord" => pc # "hung"

\* C37: an open() that fails with DATABASE_ALREADY_OPENED leaves the store
\* that is open on the handle open and as it was, so that getNrOfRecords,
\* getRecord and existRecord give what they gave before, leaves the file as
\* it was, and a close() that follows returns true.
C37_FailedOpenKeepsStore ==
    [][(ret'.op = "open" /\ ~ret'.ok /\ m_error' = "DATABASE_ALREADY_OPENED") =>
          /\ m_handle # << >>
          /\ m_handle' = m_handle
          /\ disk' = disk
          /\ close(m_handle', m_error', TRUE).result]_vars

\* The fields of a header that count the records and the index records and
\* give the record reference and the free offsets.
Counters(hdr) ==
    << hdr.nrOfRecords, hdr.recordReference, hdr.nrOfIndexRecords, hdr.nextFreeData,
       hdr.nextFreeIndex >>

\* C38: a createRecord that returns false leaves the number of records, the
\* record reference, the number of index records and the free offsets of
\* the header in memory as they were, and they are those of the header in
\* the file.
C38_FailedCreateKeepsHeader ==
    [][(ret'.op = "createRecord" /\ ~ret'.ok /\ pc' = "idle" /\ m_handle # << >>) =>
          /\ Counters(m_handle'[1].hdr) = Counters(m_handle[1].hdr)
          /\ Counters(m_handle'[1].hdr) = Counters(FileHeader(disk'))]_vars

-----------------------------------------------------------------------------
(* Claims about the key arrays and the layout of the file.                  *)

\* The first n entries of the array a hold the numbers 0..n-1, each once.
Permutation(a, n) ==
    /\ Len(a) >= n
    /\ {a[i] : i \in 1..n} = 0..(n - 1)

\* C39: the first nrOfRecords entries of the key array of every key of the
\* open store hold the slots 0..nrOfRecords-1, each once, and its first
\* nrOfIndexRecords entries the slots 0..nrOfIndexRecords-1, each once.
C39_KeyArraysArePermutations ==
    (m_handle # << >> /\ pc = "idle") =>
       \A k \in 1..Len(m_handle[1].apKeyIndex) :
          /\ Permutation(m_handle[1].apKeyIndex[k].apRecord, m_handle[1].hdr.nrOfRecords)
          /\ Permutation(m_handle[1].apKeyIndex[k].apRecord,
                         m_handle[1].hdr.nrOfIndexRecords)

\* The index entries of the file d, slot by slot: the entries of every INDEX
\* record in the order of the file.
FileEntries(d) ==
    LET hdr == FileHeader(d)
        totalIndexSize == SizeofIndex + hdr.totalKeySize
        blocks == IndexFrames(d.bytes, 0)
    IN [s \in 1..(Len(blocks) * hdr.reservedIndexRecords) |->
          BlockEntry(d.bytes, blocks[(s - 1) \div hdr.reservedIndexRecords + 1],
                     (s - 1) % hdr.reservedIndexRecords, totalIndexSize).index]

\* The frames of the file d that hold no record: the HEADER record, the
\* INDEX records with their entries and the NEXT_INDEX records behind them,
\* each as the pair of its first offset and the offset behind its last byte.
LayoutFrames(d) ==
    LET blocks == IndexFrames(d.bytes, 0)
        end == [b \in 1..Len(blocks) |->
                  blocks[b] + SizeofData + DataAt(d.bytes, blocks[b]).size]
    IN {<< 0, SizeofData + DataAt(d.bytes, 0).size >>}
          \cup {<< blocks[b], end[b] >> : b \in 1..Len(blocks)}
          \cup {<< end[b], end[b] + SizeofData >> : b \in 1..Len(blocks)}

\* The frame of the record of the index entry e: its sDATA and its data.
RecordFrame(e) == << e.dataOffset, e.dataOffset + SizeofData + e.dataSize >>

\* Two frames share no byte.
Apart(f, g) == f[2] <= g[1] \/ g[2] <= f[1]

\* C40: in the file of an open store, after every call that has returned,
\* the frames of the live records, each the sDATA and the data at the
\* dataOffset of an index entry with the status OK, share no byte with each
\* other, with the HEADER record, with an INDEX record or with a NEXT_INDEX
\* record; nextFreeData of the header, in the file and in memory, is at or
\* behind the end of every frame and of the file; and nextFreeIndex is the
\* offset of an index entry with the status RESERVED.
C40_LayoutDisjoint ==
    (m_handle # << >> /\ pc = "idle") =>
       LET hdr == FileHeader(disk)
           entries == FileEntries(disk)
           live == {s \in 1..Len(entries) : entries[s].status = eOK}
           frame == [s \in live |-> RecordFrame(entries[s])]
           layout == LayoutFrames(disk)
       IN /\ Len(entries) = hdr.nrOfIndexRecords
          /\ \A s \in live :
                /\ frame[s][1] >= 0
                /\ frame[s][2] <= hdr.nextFreeData
                /\ \A t \in live \ {s} : Apart(frame[s], frame[t])
                /\ \A f \in layout : Apart(frame[s], f)
          /\ \A f \in layout : f[2] <= hdr.nextFreeData
          /\ Len(disk.bytes) <= hdr.nextFreeData
          /\ m_handle[1].hdr.nextFreeData = hdr.nextFreeData
          /\ m_handle[1].hdr.nextFreeIndex = hdr.nextFreeIndex
          /\ \E s \in 1..Len(entries) :
                /\ entries[s].offset = hdr.nextFreeIndex
                /\ entries[s].status = eRESERVED

\* The eleventh createRecord of a store with blocks of ten has returned
\* true: the file holds eleven live records, two INDEX records and two
\* NEXT_INDEX records.
C40_Witness ==
    /\ m_handle # << >>
    /\ pc = "idle"
    /\ ret.op = "createRecord"
    /\ ret.ok
    /\ Cardinality({s \in 1..Len(FileEntries(disk)) : FileEntries(disk)[s].status = eOK})
          = MINIMUM_RESERVED_INDEX_RECORDS + 1
    /\ Cardinality(LayoutFrames(disk)) = 5

=============================================================================
